---- MODULE Spec2Model ----
(***************************************************************************)
(* Client-side scenario state machine of the compensation dashboard:       *)
(* the three scenario reducers (context/ScenarioContext, SimpleContext.tsx, *)
(* SimpleContext.jsx), the calculation gateway client and the application  *)
(* shells that dispatch to them.                                           *)
(*                                                                         *)
(* Conventions.  A nullable JavaScript value is a sequence of length at    *)
(* most one: Null is <<>> and Some(x) is <<x>>.  A JavaScript object is a  *)
(* function from field names to values, so that spreads and computed keys  *)
(* can add fields.  Scenario numbers are kept in units of 1/100 so that    *)
(* 0.05, 0.5 and 0.8 are integers.                                         *)
(***************************************************************************)
EXTENDS Integers, Sequences, FiniteSets, TLC

VARIABLES variant, state, last, calls, timers, event, curve

vars == <<variant, state, last, calls, timers, event, curve>>

(* ----------------------------- bounds ---------------------------------- *)

\* employees of a roster dispatched to the reducers directly
MaxRoster == 2

\* data rows of an uploaded file
MaxRows == 1

\* data rows of a file handed to the import pipeline alone
MaxImportRows == 2

\* batches of sensitivity probes in flight
MaxBatches == 2

\* batches of which some but not all probes have settled
MaxPartialBatches == 1

\* probe calls the transport fails while batches are re-triggered
MaxFaults == 0

\* run-simulation calls in flight
MaxCalls == 2

\* employees and results handed to the derived-view builders
MaxChartRows == 2

\* error auto-clear timers pending
MaxTimers == 1

(* --------------------------- JavaScript values ------------------------- *)

Null == <<>>

Some(x) == <<x>>

IsNull(x) == x = Null

\* { ...a, ...b }
Spread(a, b) == [k \in (DOMAIN a) \cup (DOMAIN b) |-> IF k \in DOMAIN b THEN b[k] ELSE a[k]]

\* { ...a, [f]: v }
WithField(a, f, v) == [k \in (DOMAIN a) \cup {f} |-> IF k = f THEN v ELSE a[k]]

\* the employee at each position of a roster (the argument of array.map's callback)
Each(seq) == DOMAIN seq

(* ------------------------------ variants ------------------------------- *)

\* "context"   : context/ScenarioContext reducer, mounted by index.tsx / App
\* "simple"    : SimpleContext.tsx reducer, used by the SimpleContext App
\* "simplejsx" : SimpleContext.jsx reducer, used by CompleteApp / AppContent
Variants == {"context", "simple", "simplejsx"}

(* ---------------------------- initial states --------------------------- *)

initialState ==
  [employees |-> <<>>,
   scenario  |-> [revenueDelta |-> 0, sensitivityFactor |-> 5000],
   results   |-> Null,
   summary   |-> Null,
   loading   |-> FALSE,
   error     |-> Null]

initialStateSimple ==
  [employees |-> <<>>,
   scenario  |-> [revenue_delta |-> 5, adjustment_factor |-> 80],
   results   |-> Null,
   summary   |-> Null,
   loading   |-> FALSE,
   error     |-> Null]

initialStateSimpleJsx ==
  [employees |-> <<>>,
   scenario  |-> [revenueDelta |-> 500, sensitivityFactor |-> 50],
   results   |-> Null,
   summary   |-> Null,
   loading   |-> FALSE,
   error     |-> Null]

InitialStateOf(v) ==
  CASE v = "context"   -> initialState
    [] v = "simple"    -> initialStateSimple
    [] v = "simplejsx" -> initialStateSimpleJsx

(* ----------------- faulty reducers the contracts must reject ----------- *)

\* UPDATE_EMPLOYEE removes the matched employee and appends the patched copy
scenarioReducer_MoveToEnd(s, action) ==
  CASE action.type = "SET_EMPLOYEES" -> [s EXCEPT !.employees = action.payload]
    [] action.type = "UPDATE_EMPLOYEE" ->
         [s EXCEPT !.employees =
            LET hit == SelectSeq(s.employees, LAMBDA e : e.id = action.payload.id)
            IN  SelectSeq(s.employees, LAMBDA e : e.id # action.payload.id)
                \o [i \in Each(hit) |-> Spread(hit[i], action.payload)]]
    [] action.type = "SET_SCENARIO" ->
         [s EXCEPT !.scenario = Spread(s.scenario, action.payload)]
    [] action.type = "SET_LOADING" -> [s EXCEPT !.loading = action.payload]
    [] action.type = "SET_RESULTS" ->
         [s EXCEPT !.results = action.payload.results,
                   !.summary = action.payload.summary, !.loading = FALSE]
    [] action.type = "SET_ERROR" -> [s EXCEPT !.error = action.payload, !.loading = FALSE]
    [] OTHER -> s

\* UPDATE_EMPLOYEE patches every employee, whatever its id
scenarioReducerSimple_PatchAll(s, action) ==
  CASE action.type = "SET_EMPLOYEES" -> [s EXCEPT !.employees = action.payload]
    [] action.type = "UPDATE_EMPLOYEE" ->
         [s EXCEPT !.employees =
            [i \in Each(s.employees) |->
               WithField(s.employees[i], action.payload.field, action.payload.value)]]
    [] action.type = "SET_SCENARIO" ->
         [s EXCEPT !.scenario = Spread(s.scenario, action.payload)]
    [] action.type = "SET_LOADING" -> [s EXCEPT !.loading = action.payload]
    [] action.type = "SET_RESULTS" ->
         [s EXCEPT !.results = action.payload.results, !.summary = action.payload.summary]
    [] action.type = "SET_ERROR" -> [s EXCEPT !.error = action.payload]
    [] OTHER -> s

\* SET_ERROR with a message also drops the results and summary on display
scenarioReducerSimple_ErrorDropsResults(s, action) ==
  CASE action.type = "SET_EMPLOYEES" -> [s EXCEPT !.employees = action.payload]
    [] action.type = "UPDATE_EMPLOYEE" ->
         [s EXCEPT !.employees =
            [i \in Each(s.employees) |->
               IF s.employees[i].id = action.payload.id
                 THEN WithField(s.employees[i], action.payload.field, action.payload.value)
                 ELSE s.employees[i]]]
    [] action.type = "SET_SCENARIO" ->
         [s EXCEPT !.scenario = Spread(s.scenario, action.payload)]
    [] action.type = "SET_LOADING" -> [s EXCEPT !.loading = action.payload]
    [] action.type = "SET_RESULTS" ->
         [s EXCEPT !.results = action.payload.results, !.summary = action.payload.summary]
    [] action.type = "SET_ERROR" ->
         IF IsNull(action.payload) THEN [s EXCEPT !.error = action.payload]
         ELSE [s EXCEPT !.error = action.payload, !.results = Null, !.summary = Null]
    [] OTHER -> s

\* SET_SCENARIO replaces the configuration by the partial payload
scenarioReducerSimple_ReplaceScenario(s, action) ==
  CASE action.type = "SET_EMPLOYEES" -> [s EXCEPT !.employees = action.payload]
    [] action.type = "UPDATE_EMPLOYEE" ->
         [s EXCEPT !.employees =
            [i \in Each(s.employees) |->
               IF s.employees[i].id = action.payload.id
                 THEN WithField(s.employees[i], action.payload.field, action.payload.value)
                 ELSE s.employees[i]]]
    [] action.type = "SET_SCENARIO" -> [s EXCEPT !.scenario = action.payload]
    [] action.type = "SET_LOADING" -> [s EXCEPT !.loading = action.payload]
    [] action.type = "SET_RESULTS" ->
         [s EXCEPT !.results = action.payload.results, !.summary = action.payload.summary]
    [] action.type = "SET_ERROR" -> [s EXCEPT !.error = action.payload]
    [] OTHER -> s

\* SET_EMPLOYEES appends the payload to the roster
scenarioReducerSimpleJsx_Append(s, action) ==
  CASE action.type = "SET_EMPLOYEES" ->
         [s EXCEPT !.employees = s.employees \o action.payload]
    [] action.type = "UPDATE_EMPLOYEE" ->
         [s EXCEPT !.employees =
            [i \in Each(s.employees) |->
               IF s.employees[i].id = action.payload.id
                 THEN WithField(s.employees[i], action.payload.field, action.payload.value)
                 ELSE s.employees[i]]]
    [] action.type = "SET_SCENARIO" ->
         [s EXCEPT !.scenario = Spread(s.scenario, action.payload)]
    [] action.type = "SET_LOADING" -> [s EXCEPT !.loading = action.payload]
    [] action.type = "SET_RESULTS" ->
         [s EXCEPT !.results = action.payload.results, !.summary = action.payload.summary]
    [] action.type = "SET_ERROR" -> [s EXCEPT !.error = action.payload]
    [] OTHER -> s

\* an unrecognized action resets the store
scenarioReducerSimpleJsx_ResetOnUnknown(s, action) ==
  CASE action.type = "SET_EMPLOYEES" -> [s EXCEPT !.employees = action.payload]
    [] action.type = "UPDATE_EMPLOYEE" ->
         [s EXCEPT !.employees =
            [i \in Each(s.employees) |->
               IF s.employees[i].id = action.payload.id
                 THEN WithField(s.employees[i], action.payload.field, action.payload.value)
                 ELSE s.employees[i]]]
    [] action.type = "SET_SCENARIO" ->
         [s EXCEPT !.scenario = Spread(s.scenario, action.payload)]
    [] action.type = "SET_LOADING" -> [s EXCEPT !.loading = action.payload]
    [] action.type = "SET_RESULTS" ->
         [s EXCEPT !.results = action.payload.results, !.summary = action.payload.summary]
    [] action.type = "SET_ERROR" -> [s EXCEPT !.error = action.payload]
    [] OTHER -> initialStateSimpleJsx

(* ------------------------------ reducers ------------------------------- *)

\* context/ScenarioContext.tsx
scenarioReducer(s, action) ==
  CASE action.type = "SET_EMPLOYEES" ->
         [s EXCEPT !.employees = action.payload]
    [] action.type = "UPDATE_EMPLOYEE" ->
         [s EXCEPT !.employees =
            [i \in Each(s.employees) |->
               IF s.employees[i].id = action.payload.id
                 THEN Spread(s.employees[i], action.payload)
                 ELSE s.employees[i]]]
    [] action.type = "SET_SCENARIO" ->
         [s EXCEPT !.scenario = Spread(s.scenario, action.payload)]
    [] action.type = "SET_LOADING" ->
         [s EXCEPT !.loading = action.payload]
    [] action.type = "SET_RESULTS" ->
         [s EXCEPT !.results = action.payload.results,
                   !.summary = action.payload.summary,
                   !.loading = FALSE]
    [] action.type = "SET_ERROR" ->
         [s EXCEPT !.error = action.payload, !.loading = FALSE]
    [] OTHER -> s

\* SimpleContext.tsx
scenarioReducerSimple(s, action) ==
  CASE action.type = "SET_EMPLOYEES" ->
         [s EXCEPT !.employees = action.payload]
    [] action.type = "UPDATE_EMPLOYEE" ->
         [s EXCEPT !.employees =
            [i \in Each(s.employees) |->
               IF s.employees[i].id = action.payload.id
                 THEN WithField(s.employees[i], action.payload.field, action.payload.value)
                 ELSE s.employees[i]]]
    [] action.type = "SET_SCENARIO" ->
         [s EXCEPT !.scenario = Spread(s.scenario, action.payload)]
    [] action.type = "SET_LOADING" ->
         [s EXCEPT !.loading = action.payload]
    [] action.type = "SET_RESULTS" ->
         [s EXCEPT !.results = action.payload.results,
                   !.summary = action.payload.summary]
    [] action.type = "SET_ERROR" ->
         [s EXCEPT !.error = action.payload]
    [] OTHER -> s

\* SimpleContext.jsx
scenarioReducerSimpleJsx(s, action) ==
  CASE action.type = "SET_EMPLOYEES" ->
         [s EXCEPT !.employees = action.payload]
    [] action.type = "UPDATE_EMPLOYEE" ->
         [s EXCEPT !.employees =
            [i \in Each(s.employees) |->
               IF s.employees[i].id = action.payload.id
                 THEN WithField(s.employees[i], action.payload.field, action.payload.value)
                 ELSE s.employees[i]]]
    [] action.type = "SET_SCENARIO" ->
         [s EXCEPT !.scenario = Spread(s.scenario, action.payload)]
    [] action.type = "SET_LOADING" ->
         [s EXCEPT !.loading = action.payload]
    [] action.type = "SET_RESULTS" ->
         [s EXCEPT !.results = action.payload.results,
                   !.summary = action.payload.summary]
    [] action.type = "SET_ERROR" ->
         [s EXCEPT !.error = action.payload]
    [] OTHER -> s

\* useReducer(scenarioReducer, initialState) of the provider of variant v
Reduce(v, s, action) ==
  CASE v = "context"   -> scenarioReducer(s, action)
    [] v = "simple"    -> scenarioReducerSimple(s, action)
    [] v = "simplejsx" -> scenarioReducerSimpleJsx(s, action)

(* ------------------- inputs of the reducer-level model ------------------ *)

\* an Employee of types/index.ts
Employee(id, name) ==
  [id |-> id, name |-> name, department |-> "Equities", role |-> "Analyst",
   base_salary |-> 80000, performance_rating |-> 3, quintile |-> "Q3",
   aum |-> 0, is_mrt |-> FALSE]

Ids == {"e1", "e2"}

\* ids an UPDATE_EMPLOYEE may name: "e3" is the id of no sample employee
TargetIds == Ids \cup {"e3"}

PatchFields == {"id", "name"}

PatchValues == {"e2", "n2"}

SeqsUpTo(S, n) == UNION {[1..k -> S] : k \in 0..n}

Rosters == SeqsUpTo({Employee(i, "n1") : i \in Ids}, MaxRoster)

\* a CompResult and a Summary as the gateway client returns them
CompResult(id, v) ==
  [employee_id |-> id, adjusted_base |-> v, base_salary_change |-> 0,
   performance_adjusted_bonus |-> 0, total_compensation |-> v, flags |-> <<>>]

Summary(v) == [total_payroll |-> v, avg_base_increase |-> 0]

ResponseValues == {100, 200}

\* payloads of SET_RESULTS: the typed ones, and the one handleClearData sends
ResultsPayloads ==
  {[results |-> Some(<<CompResult("e1", v)>>), summary |-> Some(Summary(v))] : v \in ResponseValues}
  \cup {[results |-> Null, summary |-> Null]}

ErrorPayloads == {Null, Some("Failed to calculate compensation")}

\* Partial<ScenarioConfig>: any subset of the configuration's keys
ScenarioPayloads(s) ==
  UNION {[keys -> {1000}] : keys \in SUBSET (DOMAIN s.scenario)}

UnknownTypes == {"RESET", "SET_SUMMARY"}

(* ---------------------- reducer-level specification --------------------- *)

NoAction == [type |-> "@@INIT", payload |-> Null]

\* the handler or callback that ran last, and the input it ran on
Ev(handler, input) == [handler |-> handler, input |-> input]

NoEvent == Ev("@@INIT", Null)

\* the local state of the SensitivityCurve component (data, loading), its
\* batches of probe calls in flight, whether the data on display was written
\* by a batch started before the batch that had written last, and the
\* failures the transport may still produce; NoCurve where the component is
\* not mounted
NoCurve ==
  [mounted |-> FALSE, data |-> <<>>, loading |-> FALSE, batches |-> <<>>,
   stale |-> FALSE, faults |-> 0]

Init ==
  /\ variant \in Variants
  /\ state = InitialStateOf(variant)
  /\ last = NoAction
  /\ calls = <<>>
  /\ timers = 0
  /\ event = NoEvent
  /\ curve = NoCurve

\* dispatch(action) on the provider's store
Dispatch(action) ==
  /\ state' = Reduce(variant, state, action)
  /\ last' = action
  /\ UNCHANGED <<variant, calls, timers, event, curve>>

DispatchSetEmployees ==
  \E E \in Rosters : Dispatch([type |-> "SET_EMPLOYEES", payload |-> E])

DispatchUpdateEmployee ==
  \E id \in TargetIds, field \in PatchFields, value \in PatchValues :
    Dispatch([type |-> "UPDATE_EMPLOYEE",
              payload |-> [id |-> id, field |-> field, value |-> value]])

DispatchSetScenario ==
  \E P \in ScenarioPayloads(state) : Dispatch([type |-> "SET_SCENARIO", payload |-> P])

DispatchSetLoading ==
  \E b \in BOOLEAN : Dispatch([type |-> "SET_LOADING", payload |-> b])

DispatchSetResults ==
  \E P \in ResultsPayloads : Dispatch([type |-> "SET_RESULTS", payload |-> P])

DispatchSetError ==
  \E e \in ErrorPayloads : Dispatch([type |-> "SET_ERROR", payload |-> e])

DispatchUnknown ==
  \E t \in UnknownTypes : Dispatch([type |-> t, payload |-> Null])

Next ==
  \/ DispatchSetEmployees
  \/ DispatchUpdateEmployee
  \/ DispatchSetScenario
  \/ DispatchSetLoading
  \/ DispatchSetResults
  \/ DispatchSetError
  \/ DispatchUnknown

Spec == Init /\ [][Next]_vars

(* ------------------------- CSV import pipeline -------------------------- *)

\* the numeric strings of the sample files and what parseFloat / parseInt
\* make of them; any other cell parses to NaN
NumericCells ==
  ("80000" :> 80000) @@ ("120000" :> 120000) @@ ("4" :> 4) @@ ("5" :> 5)
  @@ ("0" :> 0) @@ ("-1" :> -1)

\* row[col]: undefined (Null) for a column the file does not have
Cell(row, col) == IF col \in DOMAIN row THEN Some(row[col]) ELSE Null

\* parseFloat(cell), parseInt(cell): Null stands for NaN
ParseNumber(cell) ==
  IF ~IsNull(cell) /\ cell[1] \in DOMAIN NumericCells THEN Some(NumericCells[cell[1]]) ELSE Null

\* n || d for a number n: NaN and 0 are falsy
NumberOr(n, d) == IF IsNull(n) \/ n[1] = 0 THEN d ELSE n[1]

\* c || d for a string cell c: undefined and "" are falsy
StringOr(c, d) == IF IsNull(c) \/ c[1] = "" THEN d ELSE c[1]

\* a row mapping that reads is_mrt case-insensitively
RowToEmployee_AnyCaseMrt(row, index) ==
  [id                 |-> StringOr(Cell(row, "id"), "emp-" \o ToString(index)),
   name               |-> StringOr(Cell(row, "name"), ""),
   department         |-> StringOr(Cell(row, "department"), ""),
   role               |-> StringOr(Cell(row, "role"), ""),
   base_salary        |-> NumberOr(ParseNumber(Cell(row, "base_salary")), 0),
   performance_rating |-> NumberOr(ParseNumber(Cell(row, "performance_rating")), 3),
   quintile           |-> StringOr(Cell(row, "quintile"), "Q3"),
   aum                |-> NumberOr(ParseNumber(Cell(row, "aum")), 0),
   is_mrt             |-> Cell(row, "is_mrt") \in {Some("true"), Some("True"), Some("TRUE")}]

\* a row mapping that numbers the synthesized ids from 1
RowToEmployee_OneBasedId(row, index) ==
  [id                 |-> StringOr(Cell(row, "id"), "emp-" \o ToString(index + 1)),
   name               |-> StringOr(Cell(row, "name"), ""),
   department         |-> StringOr(Cell(row, "department"), ""),
   role               |-> StringOr(Cell(row, "role"), ""),
   base_salary        |-> NumberOr(ParseNumber(Cell(row, "base_salary")), 0),
   performance_rating |-> NumberOr(ParseNumber(Cell(row, "performance_rating")), 3),
   quintile           |-> StringOr(Cell(row, "quintile"), "Q3"),
   aum                |-> NumberOr(ParseNumber(Cell(row, "aum")), 0),
   is_mrt             |-> Cell(row, "is_mrt") = Some("true")]

\* the callback of results.data.map: the Employee of the row at 0-based index
RowToEmployee(row, index) ==
  [id                 |-> StringOr(Cell(row, "id"), "emp-" \o ToString(index)),
   name               |-> StringOr(Cell(row, "name"), ""),
   department         |-> StringOr(Cell(row, "department"), ""),
   role               |-> StringOr(Cell(row, "role"), ""),
   base_salary        |-> NumberOr(ParseNumber(Cell(row, "base_salary")), 0),
   performance_rating |-> NumberOr(ParseNumber(Cell(row, "performance_rating")), 3),
   quintile           |-> StringOr(Cell(row, "quintile"), "Q3"),
   aum                |-> NumberOr(ParseNumber(Cell(row, "aum")), 0),
   is_mrt             |-> Cell(row, "is_mrt") = Some("true")]

RowsToEmployees(data) == [i \in DOMAIN data |-> RowToEmployee(data[i], i - 1)]

\* data rows of the sample files: a complete row, and a row without id and
\* with an unparsable salary
SampleRows ==
  {[id |-> "e1", name |-> "n1", department |-> "Equities", role |-> "Analyst",
    base_salary |-> "80000", performance_rating |-> "4", quintile |-> "Q2",
    aum |-> "5", is_mrt |-> "true"],
   [id |-> "", name |-> "n2", department |-> "Quant", base_salary |-> "n/a",
    is_mrt |-> "True"]}

\* what Papa.parse hands to `complete`
ParseResults ==
  {[data |-> d, errors |-> e] : d \in SeqsUpTo(SampleRows, MaxRows),
                                e \in {<<>>, <<"Quoted field unterminated">>}}

\* a column of a data row: absent when the file's header does not name it
Column(col, c) == IF IsNull(c) THEN <<>> ELSE (col :> c[1])

\* id cells: no id column, an empty cell, an id, an id of the synthesized form
IdCells == {Null, Some(""), Some("e1"), Some("emp-1")}

\* performance_rating cells
RatingCells == {Null, Some(""), Some("abc"), Some("0"), Some("-1"), Some("4")}

\* is_mrt cells
MrtCells ==
  {Null, Some(""), Some("true"), Some("True"), Some("TRUE"), Some("1"), Some("yes"),
   Some("false")}

ImportRow(id, rating, mrt) ==
  Column("id", id) @@ Column("performance_rating", rating) @@ Column("is_mrt", mrt)
  @@ [name |-> "n1", department |-> "Equities", role |-> "Analyst",
      base_salary |-> "80000", quintile |-> "Q2", aum |-> "5"]

\* data rows that vary one of the three cells
ImportRows ==
  {ImportRow(id, Some("4"), Some("true")) : id \in IdCells}
  \cup {ImportRow(Some("e1"), rating, Some("true")) : rating \in RatingCells}
  \cup {ImportRow(Some("e1"), Some("4"), mrt) : mrt \in MrtCells}

\* what Papa.parse (header: true) can hand to `complete`: every row of a
\* file has the columns of the header
ImportFiles ==
  {[data |-> d, errors |-> e] :
     d \in {f \in SeqsUpTo(ImportRows, MaxImportRows) :
              \A i, j \in DOMAIN f : DOMAIN f[i] = DOMAIN f[j]},
     e \in {<<>>, <<"Quoted field unterminated">>}}

(* ------------------------- calculation gateway -------------------------- *)

\* decimal strings of the engine's responses, and parseFloat of them
DecimalStrings == ("0.00" :> 0) @@ ("100.00" :> 100) @@ ("200.00" :> 200)

\* total payrolls the engine answers with
ResponseTotals == {"100.00", "200.00"}

\* a well-formed body of POST /calculate/ for a request: one result per employee
ResponseBody(employees, d) ==
  [results |-> Some([i \in DOMAIN employees |->
                       [employee_id |-> employees[i].id, adjusted_base |-> d,
                        base_salary_change |-> "0.00", performance_adjusted_bonus |-> "0.00",
                        total_compensation |-> d, flags |-> <<>>]]),
   summary |-> Some([total_payroll |-> d, avg_base_increase |-> "0.00"])]

\* what the transport can answer to a request for `employees`
Responses(employees) ==
  {[ok |-> TRUE, data |-> ResponseBody(employees, d)] : d \in ResponseTotals}
  \cup {[ok |-> TRUE, data |-> [ResponseBody(employees, "100.00") EXCEPT !.summary = Null]]}
  \cup {[ok |-> FALSE, message |-> Null]}

ParseDecimal(str) == DecimalStrings[str]

\* a gateway client that tolerates a body without summary and resolves with
\* summary: null
calculateScenario_LenientSummary(response) ==
  IF ~response.ok
    THEN [threw |-> TRUE, message |-> "Failed to calculate compensation"]
  ELSE IF IsNull(response.data.results)
    THEN [threw |-> TRUE, message |-> "Cannot read properties of undefined (reading 'map')"]
  ELSE [threw |-> FALSE,
        value |-> [results |-> response.data.results,
                   summary |-> IF IsNull(response.data.summary) THEN Null
                               ELSE response.data.summary]]

\* calculateScenario, from the response of apiClient.post on: the value it
\* resolves to, or the message of the Error it throws
calculateScenario(response) ==
  IF ~response.ok
    THEN [threw |-> TRUE,
          message |-> IF IsNull(response.message) THEN "Failed to calculate compensation"
                                                  ELSE response.message[1]]
  ELSE IF IsNull(response.data.results)
    THEN [threw |-> TRUE, message |-> "Cannot read properties of undefined (reading 'map')"]
  ELSE IF IsNull(response.data.summary)
    THEN [threw |-> TRUE,
          message |-> "Cannot read properties of undefined (reading 'total_payroll')"]
  ELSE LET rs == response.data.results[1]
           sm == response.data.summary[1]
       IN [threw |-> FALSE,
           value |->
             [results |-> Some([i \in DOMAIN rs |->
                 [rs[i] EXCEPT !.adjusted_base = ParseDecimal(@),
                               !.base_salary_change = ParseDecimal(@),
                               !.performance_adjusted_bonus = ParseDecimal(@),
                               !.total_compensation = ParseDecimal(@)]]),
              summary |-> Some([sm EXCEPT !.total_payroll = ParseDecimal(@),
                                          !.avg_base_increase = ParseDecimal(@)])]]

(* --------------------------- application shell -------------------------- *)

RECURSIVE DispatchAll(_, _, _)
\* the store after dispatching the actions of `acts` in order
DispatchAll(v, s, acts) ==
  IF acts = <<>> THEN s ELSE DispatchAll(v, Reduce(v, s, Head(acts)), Tail(acts))

Act(type, payload) == [type |-> type, payload |-> payload]

\* the shells whose App registers the error auto-clear effect
HasErrorEffect == variant \in {"context", "simple"}

\* useEffect(..., [error, dispatch]): a 6-second timer is started whenever the
\* rendered error changes to a truthy value; it is never cancelled
TimersStarted(s) ==
  IF HasErrorEffect /\ s.error # state.error /\ ~IsNull(s.error) /\ s.error # Some("")
    THEN 1 ELSE 0

(* --------------------- sensitivity curve (SensitivityCurve) -------------- *)

\* deltaPoints, in units of 1/100
deltaPoints == <<-10, -5, -2, 0, 2, 5, 10, 15, 20>>

\* the body calculateScenario posts: scenario.revenueDelta / 100 and
\* scenario.sensitivityFactor / 100, in units of 1/10000; Null stands for the
\* NaN of a scenario object that has no such field
calculatePayload(employees, scenario) ==
  [employees |-> employees,
   config |-> [revenue_delta |-> Cell(scenario, "revenueDelta"),
               adjustment_factor |-> Cell(scenario, "sensitivityFactor")]]

\* generateSensitivityData up to the await: the nine probe calls are sent
StartBatch(s) ==
  LET currentRevenueDelta == NumberOr(Cell(s.scenario, "revenue_delta"), 0)
      adjustmentFactor == NumberOr(Cell(s.scenario, "adjustment_factor"), 80)
  IN  [employees |-> s.employees,
       current |-> currentRevenueDelta,
       requests |-> [i \in DOMAIN deltaPoints |->
                       calculatePayload(s.employees,
                                        [revenue_delta |-> deltaPoints[i],
                                         adjustment_factor |-> adjustmentFactor])],
       settled |-> [i \in DOMAIN deltaPoints |-> Null],
       rejected |-> {},
       superseded |-> FALSE]

\* the effect's dependencies [employees, scenario, currentRevenueDelta]
\* change identity when one of these actions is reduced
DepsChanged(acts) ==
  \E k \in DOMAIN acts : acts[k].type \in {"SET_EMPLOYEES", "UPDATE_EMPLOYEE", "SET_SCENARIO"}

\* the effect sends a batch of probes after the render of store state s
StartsBatch(s, acts) == curve.mounted /\ DepsChanged(acts) /\ Len(s.employees) > 0

\* the component after the effect of the render that follows `acts`
CurveAfter(s, acts) ==
  IF StartsBatch(s, acts)
    THEN [curve EXCEPT !.loading = TRUE, !.batches = Append(@, StartBatch(s))]
    ELSE curve

\* one event handler or callback: it dispatches `acts`, and the effects of
\* the render that follows run
Handle(acts, calls2, fired) ==
  LET s == DispatchAll(variant, state, acts)
  IN  /\ timers - fired + TimersStarted(s) <= MaxTimers
      /\ StartsBatch(s, acts) => Len(curve.batches) < MaxBatches
      /\ state' = s
      /\ last' = IF acts = <<>> THEN last ELSE acts[Len(acts)]
      /\ calls' = calls2
      /\ timers' = timers - fired + TimersStarted(s)
      /\ curve' = CurveAfter(s, acts)
      /\ UNCHANGED variant

\* a callback that reports the parse error and still commits the rows parsed
complete_CommitParsedRows(parsed) ==
  /\ event' = Ev("UploadComplete", parsed)
  /\ Handle(<<Act("SET_EMPLOYEES", RowsToEmployees(parsed.data))>>, calls, 0)

\* UploadPanel.processFile: the `complete` callback of Papa.parse
complete(parsed) ==
  /\ event' = Ev("UploadComplete", parsed)
  /\ IF Len(parsed.errors) > 0
       THEN Handle(<<>>, calls, 0)
       ELSE Handle(<<Act("SET_EMPLOYEES", RowsToEmployees(parsed.data))>>, calls, 0)

\* a file is uploaded and parsed
UploadComplete == \E parsed \in ParseResults : complete(parsed)

\* positions of the sliders, in units of 1/100
RevenueDeltaPositions == IF variant = "context" THEN {-2000} ELSE {-1000}

SensitivityPositions == IF variant = "context" THEN {10000} ELSE {100}

RevenueDeltaSliderChange ==
  /\ variant \in {"context", "simplejsx"}
  /\ event' = Ev("RevenueDeltaSlider.handleChange", Null)
  /\ \E newValue \in RevenueDeltaPositions :
       Handle(<<Act("SET_SCENARIO", [revenueDelta |-> newValue])>>, calls, 0)

SensitivitySliderChange ==
  /\ variant \in {"context", "simplejsx"}
  /\ event' = Ev("SensitivitySlider.handleChange", Null)
  /\ \E newValue \in SensitivityPositions :
       Handle(<<Act("SET_SCENARIO", [sensitivityFactor |-> newValue])>>, calls, 0)

\* the Run Simulation button: disabled={loading || !employees || employees.length === 0}
RunDisabled == state.loading \/ Len(state.employees) = 0

\* handleRunSimulation up to the gateway call (or the setTimeout of the mock)
handleRunSimulation ==
  /\ ~RunDisabled
  /\ Len(calls) < MaxCalls
  /\ event' = Ev("handleRunSimulation", Null)
  /\ IF Len(state.employees) = 0
       THEN Handle(<<Act("SET_ERROR", Some("Please upload employee data first"))>>, calls, 0)
       ELSE Handle(<<Act("SET_LOADING", TRUE)>>,
                   Append(calls, [employees |-> state.employees, scenario |-> state.scenario,
                                  superseded |-> FALSE]),
                   0)

Without(seq, i) == [j \in 1..(Len(seq) - 1) |-> IF j < i THEN seq[j] ELSE seq[j + 1]]

\* the calls left in flight once call i has written its results: the calls
\* started before it are superseded
Supersede(seq, i) ==
  [j \in 1..(Len(seq) - 1) |-> IF j < i THEN [seq[j] EXCEPT !.superseded = TRUE]
                                        ELSE seq[j + 1]]

\* a handler that leaves loading alone when the call rejects
GatewaySettle_RejectKeepsLoading ==
  /\ variant \in {"context", "simple"}
  /\ \E i \in DOMAIN calls : \E response \in Responses(calls[i].employees) :
       LET r == calculateScenario(response)
       IN  /\ event' = Ev("GatewaySettle",
                          [threw |-> r.threw, superseded |-> calls[i].superseded])
           /\ IF r.threw
                THEN Handle(<<Act("SET_ERROR", Some(r.message)), Act("SET_LOADING", TRUE)>>,
                            Without(calls, i), 0)
                ELSE Handle(<<Act("SET_RESULTS", r.value), Act("SET_ERROR", Null),
                              Act("SET_LOADING", FALSE)>>,
                            Supersede(calls, i), 0)

\* handleRunSimulation of App after the await: the gateway call of position i
\* settles with some response
GatewaySettle ==
  /\ variant \in {"context", "simple"}
  /\ \E i \in DOMAIN calls : \E response \in Responses(calls[i].employees) :
       LET r == calculateScenario(response)
       IN  /\ event' = Ev("GatewaySettle",
                          [threw |-> r.threw, superseded |-> calls[i].superseded])
           /\ IF r.threw
                THEN Handle(<<Act("SET_ERROR", Some(r.message)), Act("SET_LOADING", FALSE)>>,
                            Without(calls, i), 0)
                ELSE Handle(<<Act("SET_RESULTS", r.value), Act("SET_ERROR", Null),
                              Act("SET_LOADING", FALSE)>>,
                            Supersede(calls, i), 0)

\* handleCloseError: onClose of the error Snackbar, which is open while error is set
handleCloseError ==
  /\ ~IsNull(state.error)
  /\ event' = Ev("handleCloseError", Null)
  /\ Handle(<<Act("SET_ERROR", Null)>>, calls, 0)

\* the callback of the 6-second timer of the error effect
ErrorTimerFires ==
  /\ timers > 0
  /\ event' = Ev("ErrorTimerFires", Null)
  /\ Handle(<<Act("SET_ERROR", Null)>>, calls, 1)

(* ------------------ sensitivity curve: the probes settle ---------------- *)

\* what the transport answers to a probe
ProbeResponses(employees) ==
  {r \in Responses(employees) :
     r.ok => (IsNull(r.data.summary) \/ r.data.summary[1].total_payroll = "100.00")}

\* a probe that reports a failed calculation as a payroll of 0
ProbePoint_ZeroOnFailure(delta, current, r) ==
  IF r.threw
    THEN [revenueDelta |-> delta, totalPayroll |-> Some(0), payrollRatio |-> Some(0),
          isCurrent |-> delta = current]
    ELSE LET totalPayroll == r.value.summary[1].total_payroll
         IN  [revenueDelta |-> delta, totalPayroll |-> Some(totalPayroll),
              payrollRatio |-> Some((totalPayroll * 10000) \div (100 + delta)),
              isCurrent |-> delta = current]

\* the value of one probe's async callback, r being the outcome of its
\* calculateScenario call; payrollRatio = totalPayroll / (10000000 * (1 + delta))
\* is kept in units of 1e-9, rounded down
ProbePoint(delta, current, r) ==
  IF r.threw
    THEN [revenueDelta |-> delta, totalPayroll |-> Null, payrollRatio |-> Null,
          isCurrent |-> delta = current]
    ELSE LET totalPayroll == r.value.summary[1].total_payroll
         IN  [revenueDelta |-> delta, totalPayroll |-> Some(totalPayroll),
              payrollRatio |-> Some((totalPayroll * 10000) \div (100 + delta)),
              isCurrent |-> delta = current]

RECURSIVE InsertPoint(_, _)
InsertPoint(sorted, p) ==
  IF sorted = <<>> THEN <<p>>
  ELSE IF p.revenueDelta < Head(sorted).revenueDelta THEN <<p>> \o sorted
  ELSE <<Head(sorted)>> \o InsertPoint(Tail(sorted), p)

RECURSIVE SortPoints(_)
\* points.sort((a, b) => a.revenueDelta - b.revenueDelta)
SortPoints(points) ==
  IF points = <<>> THEN <<>>
  ELSE InsertPoint(SortPoints(SubSeq(points, 1, Len(points) - 1)), points[Len(points)])

\* validResults of a batch whose probes have all settled
ValidResults(batch) ==
  SortPoints(SelectSeq([i \in DOMAIN batch.settled |-> batch.settled[i][1]],
                       LAMBDA p : ~IsNull(p.totalPayroll)))

Partial(batch) ==
  /\ \E k \in DOMAIN batch.settled : ~IsNull(batch.settled[k])
  /\ \E k \in DOMAIN batch.settled : IsNull(batch.settled[k])

\* one probe call of a batch settles; when it is the last of its batch,
\* Promise.all resolves and generateSensitivityData runs to its end
ProbeSettles ==
  /\ curve.mounted
  /\ \E b \in DOMAIN curve.batches, i \in DOMAIN deltaPoints :
       /\ IsNull(curve.batches[b].settled[i])
       /\ \E response \in ProbeResponses(curve.batches[b].employees) :
            LET r == calculateScenario(response)
                batch == [curve.batches[b] EXCEPT
                            !.settled[i] = Some(ProbePoint(deltaPoints[i], curve.batches[b].current, r)),
                            !.rejected = IF r.threw THEN @ \cup {i} ELSE @]
                done == \A k \in DOMAIN batch.settled : ~IsNull(batch.settled[k])
                faults == IF r.threw THEN curve.faults - 1 ELSE curve.faults
            IN  /\ faults >= 0
                /\ curve' = IF done
                              THEN [curve EXCEPT !.data = ValidResults(batch),
                                                 !.loading = FALSE,
                                                 !.batches = Supersede(@, b),
                                                 !.stale = batch.superseded,
                                                 !.faults = faults]
                              ELSE [curve EXCEPT !.batches[b] = batch, !.faults = faults]
                /\ Cardinality({k \in DOMAIN curve'.batches : Partial(curve'.batches[k])})
                     <= MaxPartialBatches
                /\ event' = Ev("ProbeSettles", IF done THEN Some(batch) ELSE Null)
  /\ UNCHANGED <<variant, state, last, calls, timers>>

(* ------------------- AppContent (SimpleContext.jsx shell) ---------------- *)

sampleEmployees ==
  <<[id |-> "FM-001", name |-> "Jennifer Santana", department |-> "Global Equities",
     role |-> "Fund Manager", base_salary |-> 175000, performance_rating |-> 5,
     quintile |-> "Q5", aum |-> 509, is_mrt |-> TRUE],
    [id |-> "FM-002", name |-> "April Bowman", department |-> "Global Equities",
     role |-> "Fund Manager", base_salary |-> 265000, performance_rating |-> 4,
     quintile |-> "Q2", aum |-> 490, is_mrt |-> FALSE],
    [id |-> "FM-003", name |-> "Patrick Thompson", department |-> "Quant Strategies",
     role |-> "Fund Manager", base_salary |-> 200000, performance_rating |-> 4,
     quintile |-> "Q2", aum |-> 1231, is_mrt |-> TRUE]>>

\* revenueImpact = (revenueDelta / 100) * sensitivityFactor, in units of
\* 1/10000 (both scenario numbers are in units of 1/100; the sliders step by 1
\* and by 0.1, so the division is exact)
RevenueImpact(scenario) == (scenario.revenueDelta * scenario.sensitivityFactor) \div 100

\* one entry of mockResults (amounts in whole currency units)
MockResult(emp, scenario) ==
  LET baseSalary == emp.base_salary
      performanceRating == IF emp.performance_rating = 0 THEN 3 ELSE emp.performance_rating
      revenueImpact == RevenueImpact(scenario)
      salaryChange == (baseSalary * revenueImpact) \div 10000
      adjustedSalary == baseSalary + salaryChange
      bonus == (baseSalary * 15 * performanceRating) \div 300
  IN  [employee_id |-> emp.id, name |-> emp.name, department |-> emp.department,
       adjusted_salary |-> adjustedSalary, salary_change |-> salaryChange,
       bonus |-> bonus, total_compensation |-> adjustedSalary + bonus,
       flags |-> (IF emp.is_mrt /\ revenueImpact < 0 THEN <<"MRT_DECREASE">> ELSE <<>>)
                 \o (IF revenueImpact > 1000 THEN <<"HIGH_INCREASE">> ELSE <<>>)]

RECURSIVE TotalCompensation(_)
\* mockResults.reduce((sum, r) => sum + r.total_compensation, 0)
TotalCompensation(results) ==
  IF results = <<>> THEN 0
  ELSE Head(results).total_compensation + TotalCompensation(Tail(results))

\* the number of results that carry the flag
FlagCount(results, flag) ==
  Cardinality({i \in DOMAIN results : \E k \in DOMAIN results[i].flags : results[i].flags[k] = flag})

MockFlags == {"MRT_DECREASE", "HIGH_INCREASE"}

\* mockSummary
MockSummary(results, employees, scenario) ==
  [total_payroll |-> TotalCompensation(results),
   avg_base_increase |-> RevenueImpact(scenario),
   mrt_breaches |-> FlagCount(results, "MRT_DECREASE"),
   total_flags |-> FlagCount(results, "MRT_DECREASE") + FlagCount(results, "HIGH_INCREASE"),
   total_employees |-> Len(employees),
   flag_distribution |->
     [f \in {g \in MockFlags : FlagCount(results, g) > 0} |-> FlagCount(results, f)]]

\* handleRunSimulation of AppContent: the callback of setTimeout(..., 1500),
\* which computes the mock results from the roster and scenario of the click
MockTimeout ==
  /\ variant = "simplejsx"
  /\ event' = Ev("MockTimeout", Null)
  /\ \E i \in DOMAIN calls :
       LET mockResults == [k \in DOMAIN calls[i].employees |->
                             MockResult(calls[i].employees[k], calls[i].scenario)]
           mockSummary == MockSummary(mockResults, calls[i].employees, calls[i].scenario)
       IN  Handle(<<Act("SET_RESULTS", [results |-> Some(mockResults),
                                        summary |-> Some(mockSummary)]),
                    Act("SET_LOADING", FALSE)>>,
                  Supersede(calls, i), 0)

\* Load Sample Data: disabled={loading}
handleLoadSampleData ==
  /\ variant = "simplejsx"
  /\ ~state.loading
  /\ event' = Ev("handleLoadSampleData", Null)
  /\ Handle(<<Act("SET_EMPLOYEES", sampleEmployees)>>, calls, 0)

\* Clear Data: disabled={loading || !employees || employees.length === 0}
handleClearData ==
  /\ variant = "simplejsx"
  /\ ~state.loading /\ Len(state.employees) > 0
  /\ event' = Ev("handleClearData", Null)
  /\ Handle(<<Act("SET_EMPLOYEES", <<>>),
              Act("SET_RESULTS", [results |-> Null, summary |-> Null])>>, calls, 0)

(* ------------------------ application specification --------------------- *)

NextApp ==
  \/ UploadComplete
  \/ RevenueDeltaSliderChange
  \/ SensitivitySliderChange
  \/ handleRunSimulation
  \/ GatewaySettle
  \/ MockTimeout
  \/ handleCloseError
  \/ ErrorTimerFires
  \/ handleLoadSampleData
  \/ handleClearData

SpecApp == Init /\ [][NextApp]_vars

(* --------------------- run handler, called directly --------------------- *)

\* a handler that sets loading before it looks at the roster
InvokeRunSimulation_LoadingFirst ==
  /\ Len(calls) < MaxCalls
  /\ event' = Ev("handleRunSimulation", Null)
  /\ IF Len(state.employees) = 0
       THEN Handle(<<Act("SET_LOADING", TRUE),
                     Act("SET_ERROR", Some("Please upload employee data first"))>>, calls, 0)
       ELSE Handle(<<Act("SET_LOADING", TRUE)>>,
                   Append(calls, [employees |-> state.employees, scenario |-> state.scenario,
                                  superseded |-> FALSE]),
                   0)

\* handleRunSimulation is called whatever the roster and the loading flag are
\* (the button that calls it is disabled while the roster is empty)
InvokeRunSimulation ==
  /\ Len(calls) < MaxCalls
  /\ event' = Ev("handleRunSimulation", Null)
  /\ IF Len(state.employees) = 0
       THEN Handle(<<Act("SET_ERROR", Some("Please upload employee data first"))>>, calls, 0)
       ELSE Handle(<<Act("SET_LOADING", TRUE)>>,
                   Append(calls, [employees |-> state.employees, scenario |-> state.scenario,
                                  superseded |-> FALSE]),
                   0)

NextHandler ==
  \/ UploadComplete
  \/ InvokeRunSimulation
  \/ GatewaySettle
  \/ MockTimeout
  \/ handleCloseError
  \/ ErrorTimerFires

SpecHandler == Init /\ [][NextHandler]_vars

(* ----------------------- run-simulation specification ------------------- *)

\* a roster is loaded and nothing has run yet
InitRun ==
  /\ variant \in Variants
  /\ \E E \in {RowsToEmployees(<<row>>) : row \in SampleRows} \cup {sampleEmployees} :
       state = [InitialStateOf(variant) EXCEPT !.employees = E]
  /\ last = NoAction
  /\ calls = <<>>
  /\ timers = 0
  /\ event = NoEvent
  /\ curve = NoCurve

NextRun ==
  \/ handleRunSimulation
  \/ GatewaySettle
  \/ MockTimeout
  \/ handleCloseError
  \/ ErrorTimerFires

SpecRun == InitRun /\ [][NextRun]_vars

\* every gateway call settles and every setTimeout callback of the mock runs
SpecRunFair == SpecRun /\ WF_vars(GatewaySettle) /\ WF_vars(MockTimeout)

(* ---------------------- import pipeline specification ------------------- *)

\* processFile(file): Papa.parse is parsing the dropped file
InitImport ==
  /\ variant \in Variants
  /\ state = InitialStateOf(variant)
  /\ last = NoAction
  /\ calls = <<>>
  /\ timers = 0
  /\ event \in {Ev("processFile", parsed) : parsed \in ImportFiles}
  /\ curve = NoCurve

\* Papa.parse calls `complete` with the parse of the file
ImportComplete ==
  /\ event.handler = "processFile"
  /\ complete(event.input)

NextImport == ImportComplete

SpecImport == InitImport /\ [][NextImport]_vars

(* ------------------------- inline edits (CompTable) --------------------- *)

Quintiles == {"Q1", "Q2", "Q3", "Q4", "Q5"}

\* a schema whose base_salary rule is min(0) instead of positive()
employeeValidationSchema_ZeroSalary(field, value) ==
  CASE field = "base_salary" -> ~IsNull(value) /\ value[1] >= 0
    [] field = "performance_rating" -> ~IsNull(value) /\ value[1] >= 1 /\ value[1] <= 5
    [] field = "quintile" -> ~IsNull(value) /\ value[1] \in Quintiles
    [] field = "aum" -> ~IsNull(value) /\ value[1] >= 0
    [] OTHER -> FALSE

\* employeeValidationSchema.validateSyncAt(field, { ...employee, [field]: value })
\* returns (TRUE) or throws (FALSE); an empty cell is Null
employeeValidationSchema(field, value) ==
  CASE field = "base_salary" -> ~IsNull(value) /\ value[1] > 0
    [] field = "performance_rating" -> ~IsNull(value) /\ value[1] >= 1 /\ value[1] <= 5
    [] field = "quintile" -> ~IsNull(value) /\ value[1] \in Quintiles
    [] field = "aum" -> ~IsNull(value) /\ value[1] >= 0
    [] OTHER -> FALSE

\* why the grid stopped editing the cell
EditStopReasons == {"enterKeyDown", "tabKeyDown", "escapeKeyDown", "cellFocusOut"}

\* the edited cell and the value typed into it
CellEdits ==
  {[field |-> "base_salary", value |-> v] : v \in {Some(90000), Some(0), Some(-5), Null}}
  \cup {[field |-> "performance_rating", value |-> v] : v \in {Some(5), Some(0), Some(6), Null}}
  \cup {[field |-> "quintile", value |-> v] : v \in {Some("Q1"), Some("Q9"), Null}}
  \cup {[field |-> "aum", value |-> v] : v \in {Some(0), Some(-1), Null}}

\* the row of the edited cell: a roster employee's, or one no longer in the roster
EditRowIds == {state.employees[i].id : i \in DOMAIN state.employees} \cup {"gone"}

\* CompTable edits the roster of the context/ScenarioContext store
handleCellEditStop ==
  /\ variant = "context"
  /\ \E reason \in EditStopReasons, id \in EditRowIds, edit \in CellEdits :
       /\ event' = Ev("handleCellEditStop",
                      [reason |-> reason, id |-> id, field |-> edit.field, value |-> edit.value])
       /\ IF reason \notin {"enterKeyDown", "tabKeyDown"}
            THEN Handle(<<>>, calls, 0)
          ELSE IF \A i \in DOMAIN state.employees : state.employees[i].id # id
            THEN Handle(<<>>, calls, 0)
          ELSE IF ~employeeValidationSchema(edit.field, edit.value)
            THEN Handle(<<>>, calls, 0)
          ELSE Handle(<<Act("UPDATE_EMPLOYEE",
                            [id |-> id, field |-> edit.field, value |-> edit.value[1]])>>,
                      calls, 0)

NextEdit ==
  \/ UploadComplete
  \/ handleCellEditStop

SpecEdit == Init /\ [][NextEdit]_vars

(* --------------------------- CSV export (ExportButton) ------------------ *)

RECURSIVE Join(_)
\* flags.join(', ')
Join(flags) ==
  IF flags = <<>> THEN ""
  ELSE IF Len(flags) = 1 THEN flags[1]
  ELSE flags[1] \o ", " \o Join(Tail(flags))

\* ((adjusted_salary / base_salary) - 1) * 100 in units of 1/100, rounded
\* towards minus infinity; Null stands for the non-finite results (NaN,
\* Infinity) of a division by a base salary of 0
IncreasePercent(adjusted_salary, base_salary) ==
  IF base_salary = 0 THEN Null
  ELSE Some(((adjusted_salary - base_salary) * 10000) \div base_salary)

\* results.find(r => r.employee_id === id): Null stands for undefined
FindResult(results, id) ==
  IF \E k \in DOMAIN results : results[k].employee_id = id
    THEN Some(results[CHOOSE k \in DOMAIN results :
                        /\ results[k].employee_id = id
                        /\ \A h \in 1..(k - 1) : results[h].employee_id # id])
    ELSE Null

\* the export row of an employee with its result
ExportRow(employee, result) ==
  [id |-> employee.id, name |-> employee.name, department |-> employee.department,
   role |-> employee.role, is_mrt |-> IF employee.is_mrt THEN "Yes" ELSE "No",
   base_salary |-> employee.base_salary,
   performance_rating |-> employee.performance_rating,
   quintile |-> employee.quintile, aum |-> employee.aum,
   adjusted_salary |-> result.adjusted_salary, salary_change |-> result.salary_change,
   salary_increase_percent |-> IncreasePercent(result.adjusted_salary, employee.base_salary),
   bonus |-> result.bonus,
   total_compensation |-> result.adjusted_salary + result.bonus,
   flags |-> Join(result.flags)]

\* an export that leaves out the employees without a result
prepareExportData_MatchedOnly(s) ==
  IF IsNull(s.results) THEN <<>>
  ELSE LET matched == SelectSeq(s.employees,
                                LAMBDA e : ~IsNull(FindResult(s.results[1], e.id)))
       IN  [i \in DOMAIN matched |->
              ExportRow(matched[i], FindResult(s.results[1], matched[i].id)[1])]

\* prepareExportData on the store's employees and results
prepareExportData(s) ==
  IF IsNull(s.results) THEN <<>>
  ELSE [i \in DOMAIN s.employees |->
          LET employee == s.employees[i]
              result == FindResult(s.results[1], employee.id)
          IN  IF IsNull(result) THEN employee ELSE ExportRow(employee, result[1])]

\* rosters on display when the export is prepared
ExportRosters ==
  SeqsUpTo({Employee("e1", "n1"),
            [Employee("e2", "n2") EXCEPT !.base_salary = 0, !.is_mrt = TRUE]}, MaxRoster)

\* a CompResult as types/index.ts declares it
TypedResult(id, adjusted_salary, bonus, flags) ==
  [employee_id |-> id, adjusted_salary |-> adjusted_salary,
   salary_change |-> adjusted_salary - 80000, bonus |-> bonus,
   total_compensation |-> adjusted_salary + bonus + 500, flags |-> flags]

\* results on display when the export is prepared
ExportResults ==
  SeqsUpTo({TypedResult("e1", 84000, 12000, <<"HIGH_INCREASE", "MRT_DECREASE">>),
            TypedResult("e2", 76000, 0, <<"MRT_DECREASE">>),
            TypedResult("e3", 80000, 4000, <<>>)}, MaxRoster)

InitExport ==
  /\ variant = "context"
  /\ \E E \in ExportRosters, R \in {Null} \cup {Some(r) : r \in ExportResults} :
       state = [initialState EXCEPT !.employees = E, !.results = R,
                                    !.summary = IF IsNull(R) THEN Null ELSE Some(Summary(100))]
  /\ last = NoAction
  /\ calls = <<>>
  /\ timers = 0
  /\ event = NoEvent
  /\ curve = NoCurve

\* Export Results: disabled={!results || results.length === 0}; the rows
\* handed to the CSV parser, none when there is nothing to export
handleExport ==
  /\ variant = "context"
  /\ ~IsNull(state.results) /\ Len(state.results[1]) > 0
  /\ event' = Ev("handleExport", prepareExportData(state))
  /\ Handle(<<>>, calls, 0)

NextExport == handleExport

SpecExport == InitExport /\ [][NextExport]_vars

(* -------------------------- derived-view builders ----------------------- *)

\* decimal strings of the engine's bodies that the gateway client leaves
\* unparsed, with the number parseFloat reads from them
ChartDecimals ==
  ("0.00" :> 0) @@ ("75000.00" :> 75000) @@ ("500000.00" :> 500000)
  @@ ("515000.00" :> 515000) @@ ("660000.00" :> 660000)

\* parseFloat(x): Null stands for NaN
ParseFloat(x) == IF ~IsNull(x) /\ x[1] \in DOMAIN ChartDecimals THEN Some(ChartDecimals[x[1]]) ELSE Null

\* parseFloat(x || '0') for a decimal string x
ParseFloatOrZero(x) == ParseFloat(Some(StringOr(x, "0.00")))

\* a + b for numbers, NaN (Null) when either is NaN
Plus(a, b) == IF IsNull(a) \/ IsNull(b) THEN Null ELSE Some(a[1] + b[1])

RECURSIVE SumOf(_)
\* array.reduce((sum, x) => sum + x, 0)
SumOf(ns) == IF ns = <<>> THEN Some(0) ELSE Plus(SumOf(SubSeq(ns, 1, Len(ns) - 1)), ns[Len(ns)])

RECURSIVE InsertBy(_, _, _, _)
InsertBy(sorted, p, key, descending) ==
  IF sorted = <<>> THEN <<p>>
  ELSE IF (IF descending THEN p[key] > Head(sorted)[key] ELSE p[key] < Head(sorted)[key])
    THEN <<p>> \o sorted
  ELSE <<Head(sorted)>> \o InsertBy(Tail(sorted), p, key, descending)

RECURSIVE SortBy(_, _, _)
\* array.sort((a, b) => a[key] - b[key]), or b[key] - a[key] when descending
SortBy(seq, key, descending) ==
  IF seq = <<>> THEN <<>>
  ELSE InsertBy(SortBy(SubSeq(seq, 1, Len(seq) - 1), key, descending), seq[Len(seq)],
                key, descending)

RECURSIVE Distinct(_)
\* Array.from(new Set(seq)): first occurrences, in order
Distinct(seq) ==
  IF seq = <<>> THEN <<>>
  ELSE LET front == Distinct(SubSeq(seq, 1, Len(seq) - 1))
           x == seq[Len(seq)]
       IN  IF \E k \in DOMAIN front : front[k] = x THEN front ELSE Append(front, x)

\* the largest k with k * k <= n
Isqrt(n) == CHOOSE k \in 0..n : k * k <= n /\ (k + 1) * (k + 1) > n

(* ChartsSection *)

\* max = Null stands for Infinity
brackets ==
  <<[min |-> 0, max |-> Some(50000), label |-> "0-50K"],
    [min |-> 50000, max |-> Some(100000), label |-> "50K-100K"],
    [min |-> 100000, max |-> Some(150000), label |-> "100K-150K"],
    [min |-> 150000, max |-> Some(200000), label |-> "150K-200K"],
    [min |-> 200000, max |-> Null, label |-> "200K+"]>>

\* brackets whose upper limit belongs to the bracket
InBracket_UpperInclusive(value, bracket) ==
  /\ ~IsNull(value)
  /\ value[1] > bracket.min \/ (bracket.min = 0 /\ value[1] = 0)
  /\ IsNull(bracket.max) \/ value[1] <= bracket.max[1]

\* value >= bracket.min && value < bracket.max; an undefined value compares false
InBracket(value, bracket) ==
  /\ ~IsNull(value)
  /\ value[1] >= bracket.min
  /\ IsNull(bracket.max) \/ value[1] < bracket.max[1]

\* a distribution that counts every result, matched or not
salaryDistributionData_CountsOrphans(s) ==
  IF IsNull(s.results) THEN <<>>
  ELSE [b \in DOMAIN brackets |->
          [name |-> brackets[b].label,
           original |-> Cardinality({i \in DOMAIN s.employees :
                                       InBracket(Some(s.employees[i].base_salary), brackets[b])}),
           adjusted |-> Cardinality({i \in DOMAIN s.results[1] :
                                       InBracket(Cell(s.results[1][i], "adjusted_salary"),
                                                 brackets[b])})]]

salaryDistributionData(s) ==
  IF IsNull(s.results) THEN <<>>
  ELSE [b \in DOMAIN brackets |->
          [name |-> brackets[b].label,
           original |-> Cardinality({i \in DOMAIN s.employees :
                                       InBracket(Some(s.employees[i].base_salary), brackets[b])}),
           adjusted |-> Cardinality({i \in DOMAIN s.results[1] :
                                       /\ \E e \in DOMAIN s.employees :
                                            s.employees[e].id = s.results[1][i].employee_id
                                       /\ InBracket(Cell(s.results[1][i], "adjusted_salary"),
                                                    brackets[b])})]]

\* label: Math.round(count / employees.length * 100) as a percentage, Null for ''
performanceDistributionData(s) ==
  [rating \in 1..5 |->
     LET count == Cardinality({i \in DOMAIN s.employees :
                                 s.employees[i].performance_rating = rating})
     IN  [name |-> rating, value |-> count,
          label |-> IF count > 0
                      THEN Some((count * 200 + Len(s.employees)) \div (2 * Len(s.employees)))
                      ELSE Null]]

\* a flag distribution that shows a placeholder entry before the first run
flagDistributionData_Placeholder(s) ==
  IF IsNull(s.summary) \/ IsNull(Cell(s.summary[1], "flag_distribution"))
    THEN <<[name |-> "NONE", value |-> 0]>>
    ELSE LET entries == s.summary[1].flag_distribution
         IN  [k \in DOMAIN entries |-> [name |-> entries[k][1], value |-> entries[k][2]]]

\* objects of the summary are kept as their Object.entries
flagDistributionData(s) ==
  IF IsNull(s.summary) \/ IsNull(Cell(s.summary[1], "flag_distribution"))
    THEN <<>>
    ELSE LET entries == s.summary[1].flag_distribution
         IN  [k \in DOMAIN entries |-> [name |-> entries[k][1], value |-> entries[k][2]]]

(* WaterfallChart *)

Includes(result, flag) == \E k \in DOMAIN result.flags : result.flags[k] = flag

estimatedAdjustment(result) ==
  IF "flags" \in DOMAIN result /\ Len(result.flags) > 0
    THEN IF Includes(result, "MRT_DECREASE") THEN -5000
         ELSE IF Includes(result, "HIGH_INCREASE") THEN 2000
         ELSE 0
    ELSE 0

\* a bridge that puts the bonus step before the base-salary step
chartData_BonusFirst(s) ==
  IF IsNull(s.results) \/ IsNull(s.summary) THEN <<>>
  ELSE LET results == s.results[1]
           totalOriginalBase ==
             SumOf([i \in DOMAIN results |-> ParseFloatOrZero(Cell(results[i], "original_base"))])
           totalAdjustedBase ==
             SumOf([i \in DOMAIN results |->
                      Some(NumberOr(Cell(results[i], "adjusted_base"), 0))])
           totalBonus ==
             SumOf([i \in DOMAIN results |-> ParseFloatOrZero(Cell(results[i], "bonus"))])
           flagAdjustments == SumOf([i \in DOMAIN results |-> Some(estimatedAdjustment(results[i]))])
       IN  <<[name |-> "Last Year Payroll", value |-> totalOriginalBase],
             [name |-> "Bonus Impact", value |-> totalBonus],
             [name |-> "Base Salary Change",
              value |-> Plus(totalAdjustedBase, Some(0 - totalOriginalBase[1]))],
             [name |-> "Flag Adjustments", value |-> flagAdjustments],
             [name |-> "New Payroll", value |-> Cell(s.summary[1], "total_payroll")]>>

\* the steps of the bridge, without their descriptions and colours; adjusted_base
\* and total_payroll are numbers already (the gateway client parsed them)
chartData(s) ==
  IF IsNull(s.results) \/ IsNull(s.summary) THEN <<>>
  ELSE LET results == s.results[1]
           totalOriginalBase ==
             SumOf([i \in DOMAIN results |-> ParseFloatOrZero(Cell(results[i], "original_base"))])
           totalAdjustedBase ==
             SumOf([i \in DOMAIN results |->
                      Some(NumberOr(Cell(results[i], "adjusted_base"), 0))])
           totalBonus ==
             SumOf([i \in DOMAIN results |-> ParseFloatOrZero(Cell(results[i], "bonus"))])
           baseSalaryChange == Plus(totalAdjustedBase, Some(0 - totalOriginalBase[1]))
           flagAdjustments == SumOf([i \in DOMAIN results |-> Some(estimatedAdjustment(results[i]))])
       IN  <<[name |-> "Last Year Payroll", value |-> totalOriginalBase],
             [name |-> "Base Salary Change", value |-> baseSalaryChange],
             [name |-> "Bonus Impact", value |-> totalBonus],
             [name |-> "Flag Adjustments", value |-> flagAdjustments],
             [name |-> "New Payroll", value |-> Cell(s.summary[1], "total_payroll")]>>

(* Histogram *)

\* binRange.split(' to ') with both parts read by parseFloat
BinRanges == ("-5.0 to 0.0" :> <<-5, 0>>) @@ ("0.0 to 5.0" :> <<0, 5>>) @@ ("5.0 to 10.0" :> <<5, 10>>)

\* avgPct is kept doubled; totalSalary and percentOfPayroll are rounded down,
\* Null standing for NaN or Infinity (no result, or a payroll of 0)
histogramData(s) ==
  IF IsNull(s.results) \/ IsNull(s.summary)
     \/ IsNull(Cell(s.summary[1], "salary_change_histogram"))
    THEN <<>>
    ELSE LET histogramBins == s.summary[1].salary_change_histogram
             totalPayroll == NumberOr(Cell(s.summary[1], "total_payroll"), 0)
             n == Len(s.results[1])
             binsWithTotals ==
               [k \in DOMAIN histogramBins |->
                  LET binRange == histogramBins[k][1]
                      count == histogramBins[k][2]
                  IN  [binRange |-> binRange,
                       count |-> count,
                       avgPct |-> BinRanges[binRange][1] + BinRanges[binRange][2],
                       totalSalary |-> IF n = 0 THEN Null
                                       ELSE Some((count * totalPayroll) \div n),
                       percentOfPayroll |-> IF n = 0 \/ totalPayroll = 0 THEN Null
                                            ELSE Some((count * 100) \div n)]]
         IN  SortBy(binsWithTotals, "avgPct", FALSE)

(* DeptStackedBar *)

barData(s) ==
  IF IsNull(s.summary) \/ IsNull(Cell(s.summary[1], "dept_totals")) THEN <<>>
  ELSE LET entries == s.summary[1].dept_totals
           deptData ==
             [k \in DOMAIN entries |->
                [department |-> entries[k][1],
                 base |-> NumberOr(ParseFloat(Cell(entries[k][2], "base")), 0),
                 bonus |-> NumberOr(ParseFloat(Cell(entries[k][2], "bonus")), 0),
                 total |-> NumberOr(ParseFloat(Cell(entries[k][2], "total")), 0)]]
       IN  SortBy(deptData, "total", TRUE)

(* PayrollSunburst *)

treemapData(s) ==
  IF IsNull(s.summary) \/ IsNull(Cell(s.summary[1], "role_totals")) THEN <<>>
  ELSE LET entries == s.summary[1].role_totals
       IN  <<[name |-> "Total Payroll",
              value |-> NumberOr(Cell(s.summary[1], "total_payroll"), 0),
              children |->
                [d \in DOMAIN entries |->
                   LET roles == entries[d][2]
                   IN  [name |-> entries[d][1],
                        value |-> SumOf([r \in DOMAIN roles |-> ParseFloat(Some(roles[r][2]))]),
                        deptIndex |-> d - 1,
                        children |-> [r \in DOMAIN roles |->
                                        [name |-> roles[r][1],
                                         value |-> ParseFloat(Some(roles[r][2])),
                                         parent |-> entries[d][1],
                                         roleIndex |-> r - 1]]]]]>>

(* FlagsHeatmap *)

\* key.replace(/[()]/g, '').split(', ')
MatrixKeys ==
  ("(Equities, MRT_DECREASE)" :> <<"Equities", "MRT_DECREASE">>)
  @@ ("(Quant, MRT_DECREASE)" :> <<"Quant", "MRT_DECREASE">>)
  @@ ("(Equities, HIGH_INCREASE)" :> <<"Equities", "HIGH_INCREASE">>)
  @@ ("Equities" :> <<"Equities">>)

heatmapData(s) ==
  IF IsNull(s.summary) \/ IsNull(Cell(s.summary[1], "flag_matrix"))
    THEN [heatmapData |-> <<>>, departments |-> <<>>, flagTypes |-> <<>>]
    ELSE LET entries == SelectSeq(s.summary[1].flag_matrix,
                                  LAMBDA e : Len(MatrixKeys[e[1]]) = 2)
             data == [k \in DOMAIN entries |->
                        [x |-> MatrixKeys[entries[k][1]][2],
                         y |-> MatrixKeys[entries[k][1]][1],
                         value |-> entries[k][2]]]
         IN  [heatmapData |-> data,
              departments |-> Distinct([k \in DOMAIN data |-> data[k].y]),
              flagTypes |-> Distinct([k \in DOMAIN data |-> data[k].x])]

(* PerfBonusScatter *)

\* employeeMap.get(id): the last roster employee with this id
MapGet(employees, id) ==
  LET at == {e \in DOMAIN employees : employees[e].id = id}
  IN  IF at = {} THEN Null ELSE Some(employees[CHOOSE e \in at : \A f \in at : f <= e])

\* z = Math.sqrt(aum) / 10 is kept in tenths, rounded down
scatterData(s) ==
  IF IsNull(s.results) THEN <<>>
  ELSE LET points ==
             [i \in DOMAIN s.results[1] |->
                LET result == s.results[1][i]
                    employee == MapGet(s.employees, result.employee_id)
                IN  IF IsNull(employee) THEN Null
                    ELSE Some([name |-> StringOr(Some(employee[1].name),
                                                 "Employee " \o result.employee_id),
                               department |-> StringOr(Some(employee[1].department), "Unknown"),
                               performanceRating |->
                                 NumberOr(Some(employee[1].performance_rating), 3),
                               bonus |-> ParseFloatOrZero(Cell(result, "bonus")),
                               aum |-> employee[1].aum,
                               z |-> Isqrt(employee[1].aum)])]
           kept == SelectSeq(points, LAMBDA p : ~IsNull(p))
       IN  [k \in DOMAIN kept |-> kept[k][1]]

(* inputs of the builders *)

ChartSalaries == {-1, 0, 49999, 50000, 100000, 150000, 200000}

ChartEmployee(id, base_salary) ==
  [Employee(id, "n1") EXCEPT !.base_salary = base_salary, !.aum = 25]

\* rosters of e1, e2, ... ; the employees after the first earn 49999 or 200000
ChartRosters ==
  {roster \in SeqsUpTo({ChartEmployee(id, v) : id \in {"e1", "e2", "e3"}, v \in ChartSalaries},
                        MaxChartRows) :
     \A i \in DOMAIN roster :
       /\ roster[i].id = "e" \o ToString(i)
       /\ i > 1 => roster[i].base_salary \in {49999, 200000}}

\* a result as the store holds it: the engine's fields, adjusted_base parsed
\* by the gateway client, and adjusted_salary where the engine sends it
ChartResult(id, adjusted_salary, flags) ==
  LET common == [employee_id |-> id, original_base |-> "500000.00", adjusted_base |-> 515000,
                 bonus |-> "75000.00", flags |-> flags]
  IN  IF IsNull(adjusted_salary) THEN common
      ELSE WithField(common, "adjusted_salary", adjusted_salary[1])

\* "zz" is the id of no roster employee
ChartResults ==
  SeqsUpTo({ChartResult(id, v, flags) :
              id \in {"e1", "zz"}, v \in {Null, Some(-1), Some(50000)},
              flags \in {<<>>, <<"MRT_DECREASE">>, <<"HIGH_INCREASE">>,
                         <<"HIGH_INCREASE", "MRT_DECREASE">>}},
           MaxChartRows)

FullSummary ==
  [total_payroll |-> 1175000, avg_base_increase |-> 3, total_flags |-> 1,
   flag_distribution |-> <<<<"MRT_DECREASE", 1>>, <<"HIGH_INCREASE", 0>>>>,
   salary_change_histogram |-> <<<<"0.0 to 5.0", 1>>, <<"-5.0 to 0.0", 1>>>>,
   dept_totals |-> <<<<"Quant", [base |-> "515000.00", bonus |-> "75000.00",
                                total |-> "515000.00"]>>,
                     <<"Equities", [base |-> "515000.00", bonus |-> "75000.00",
                                   total |-> "660000.00"]>>>>,
   role_totals |-> <<<<"Equities", <<<<"Analyst", "660000.00">>>>>>,
                     <<"Quant", <<<<"Analyst", "515000.00">>>>>>>>,
   flag_matrix |-> <<<<"(Equities, MRT_DECREASE)", 1>>, <<"Equities", 2>>,
                     <<"(Quant, MRT_DECREASE)", 1>>, <<"(Equities, HIGH_INCREASE)", 1>>>>]

\* a summary with the two fields the gateway client parses, and a full one
ChartSummaries == {Summary(1175000), FullSummary}

\* the store when the charts render: results and summary are set together
InitCharts ==
  /\ variant \in {"context", "simple"}
  /\ \E E \in ChartRosters :
       \/ state = [InitialStateOf(variant) EXCEPT !.employees = E]
       \/ \E R \in ChartResults, S \in ChartSummaries :
            state = [InitialStateOf(variant) EXCEPT !.employees = E, !.results = Some(R),
                                                    !.summary = Some(S)]
  /\ last = NoAction
  /\ calls = <<>>
  /\ timers = 0
  /\ event = NoEvent
  /\ curve = NoCurve

\* ChartsSection renders over the context/ScenarioContext store
RenderChartsSection ==
  /\ variant = "context"
  /\ event = NoEvent
  /\ event' = Ev("ChartsSection", [salaryDistributionData |-> salaryDistributionData(state),
                                   performanceDistributionData |->
                                     performanceDistributionData(state),
                                   flagDistributionData |-> flagDistributionData(state)])
  /\ Handle(<<>>, calls, 0)

\* the charts of the dashboard render over the SimpleContext store
RenderCharts ==
  /\ variant = "simple"
  /\ event = NoEvent
  /\ event' = Ev("Charts", [chartData |-> chartData(state),
                            histogramData |-> histogramData(state),
                            barData |-> barData(state),
                            treemapData |-> treemapData(state),
                            heatmapData |-> heatmapData(state),
                            scatterData |-> scatterData(state)])
  /\ Handle(<<>>, calls, 0)

NextCharts ==
  \/ RenderChartsSection
  \/ RenderCharts

SpecCharts == InitCharts /\ [][NextCharts]_vars

(* --------------------- sensitivity curve specifications ----------------- *)

\* the component is mounted over an imported roster and its effect has sent
\* the first batch; the transport may fail any of the probes
InitCurve ==
  /\ variant = "simple"
  /\ \E row \in SampleRows :
       /\ state = [initialStateSimple EXCEPT !.employees = RowsToEmployees(<<row>>)]
       /\ curve = [mounted |-> TRUE, data |-> <<>>, loading |-> TRUE,
                   batches |-> <<StartBatch(state)>>, stale |-> FALSE,
                   faults |-> Len(deltaPoints)]
  /\ last = NoAction
  /\ calls = <<>>
  /\ timers = 0
  /\ event = NoEvent

NextCurve == ProbeSettles

SpecCurve == InitCurve /\ [][NextCurve]_vars

\* the component is mounted before a roster is imported; uploads re-trigger
\* its effect
InitRetrigger ==
  /\ variant = "simple"
  /\ state = initialStateSimple
  /\ curve = [NoCurve EXCEPT !.mounted = TRUE, !.faults = MaxFaults]
  /\ last = NoAction
  /\ calls = <<>>
  /\ timers = 0
  /\ event = NoEvent

\* files that parse without error and hold a row
RetriggerUploads == {parsed \in ParseResults : parsed.errors = <<>> /\ Len(parsed.data) > 0}

UploadRetriggers == \E parsed \in RetriggerUploads : complete(parsed)

NextRetrigger ==
  \/ UploadRetriggers
  \/ ProbeSettles

SpecRetrigger == InitRetrigger /\ [][NextRetrigger]_vars

(* ------------------------- reducer contracts --------------------------- *)

Recognized ==
  {"SET_EMPLOYEES", "UPDATE_EMPLOYEE", "SET_SCENARIO", "SET_LOADING", "SET_RESULTS", "SET_ERROR"}

\* the fields of ScenarioState other than those in `changed` keep their value
Frame(changed) ==
  \A f \in (DOMAIN state) \ changed : state'[f] = state[f]

\* C2: a SET_RESULTS action sets results and summary to its payload and
\* loading to false, and leaves employees, scenario and error alone, in each
\* of the repository's scenario reducers.
C2_SetResultsClearsLoading ==
  [][last'.type = "SET_RESULTS" =>
       /\ state'.results = last'.payload.results
       /\ state'.summary = last'.payload.summary
       /\ state'.loading = FALSE
       /\ Frame({"results", "summary", "loading"})]_vars

\* C3: a SET_ERROR action sets error to its payload and loading to false, and
\* leaves results, summary, employees and scenario alone, in each of the
\* repository's scenario reducers.
C3_SetErrorClearsLoading ==
  [][last'.type = "SET_ERROR" =>
       /\ state'.error = last'.payload
       /\ state'.loading = FALSE
       /\ Frame({"error", "loading"})]_vars

\* C4: an UPDATE_EMPLOYEE action {id, field, value} leaves every employee that
\* has that id with its field `field` equal to `value`, every other field as it
\* was and no further field, in each of the repository's scenario reducers.
C4_UpdatePatchesNamedField ==
  [][last'.type = "UPDATE_EMPLOYEE" =>
       /\ Len(state'.employees) = Len(state.employees)
       /\ \A i \in 1..Len(state.employees) :
            state.employees[i].id = last'.payload.id =>
              /\ DOMAIN state'.employees[i] = (DOMAIN state.employees[i]) \cup {last'.payload.field}
              /\ state'.employees[i][last'.payload.field] = last'.payload.value
              /\ \A k \in (DOMAIN state.employees[i]) \ {last'.payload.field} :
                   state'.employees[i][k] = state.employees[i][k]]_vars

\* C5: an UPDATE_EMPLOYEE action keeps the roster length, keeps every employee
\* whose id differs from the action's id unchanged and in place (so the whole
\* roster when no employee has that id), and leaves results, summary,
\* scenario, loading and error alone.
C5_UpdateFrame ==
  [][last'.type = "UPDATE_EMPLOYEE" =>
       /\ Len(state'.employees) = Len(state.employees)
       /\ \A i \in 1..Len(state.employees) :
            state.employees[i].id # last'.payload.id =>
              state'.employees[i] = state.employees[i]
       /\ (\A i \in 1..Len(state.employees) : state.employees[i].id # last'.payload.id)
            => state'.employees = state.employees
       /\ Frame({"employees"})]_vars

\* an employee that some UPDATE_EMPLOYEE has patched
Patched(e) == e.name # "n1" \/ "field" \in DOMAIN e

C5_Witness ==
  /\ last.type = "UPDATE_EMPLOYEE"
  /\ last.payload.field # "id"
  /\ ~IsNull(state.results)
  /\ \E i, j \in 1..Len(state.employees) :
       /\ state.employees[i].id = last.payload.id
       /\ Patched(state.employees[i])
       /\ state.employees[j].id # last.payload.id
       /\ ~Patched(state.employees[j])

UpdateActions ==
  {[type |-> "UPDATE_EMPLOYEE", payload |-> [id |-> id, field |-> field, value |-> value]] :
     id \in TargetIds, field \in PatchFields, value \in PatchValues}

\* the roster after dispatching a and then b
RosterAfter(a, b) == Reduce(variant, Reduce(variant, state, a), b).employees

\* C6 as stated: two UPDATE_EMPLOYEE actions that target distinct ids, with any
\* field name and value, give the same roster in either order.
C6_CommuteAnyField ==
  \A a, b \in UpdateActions :
    a.payload.id # b.payload.id => RosterAfter(a, b) = RosterAfter(b, a)

\* C6 amended: two UPDATE_EMPLOYEE actions that target distinct ids and patch
\* fields other than id give the same roster in either order (and so does any
\* finite set of them, by exchanging neighbours).
C6_CommuteNonIdField ==
  \A a, b \in UpdateActions :
    (a.payload.id # b.payload.id /\ a.payload.field # "id" /\ b.payload.field # "id")
      => RosterAfter(a, b) = RosterAfter(b, a)

C6_Witness ==
  /\ last.type = "UPDATE_EMPLOYEE"
  /\ last.payload.field # "id"
  /\ \E i, j \in 1..Len(state.employees) :
       /\ state.employees[i].id = last.payload.id
       /\ state.employees[j].id # last.payload.id
       /\ state.employees[j].id \in TargetIds
       /\ Patched(state.employees[i])
       /\ Patched(state.employees[j])

\* C7: a SET_EMPLOYEES action makes the roster exactly its payload and leaves
\* results, summary, scenario, loading and error alone.
C7_SetEmployeesReplaces ==
  [][last'.type = "SET_EMPLOYEES" =>
       /\ state'.employees = last'.payload
       /\ Frame({"employees"})]_vars

C7_Witness ==
  /\ last.type = "SET_EMPLOYEES"
  /\ Len(last.payload) = 1
  /\ state.employees = last.payload
  /\ ~IsNull(state.results)
  /\ state.loading
  /\ ~IsNull(state.error)

\* C8: a SET_SCENARIO action gives each scenario field its payload names the
\* payload's value, keeps every other scenario field, and leaves employees,
\* results, summary, loading and error alone.
C8_SetScenarioMerges ==
  [][last'.type = "SET_SCENARIO" =>
       /\ DOMAIN state'.scenario = (DOMAIN state.scenario) \cup (DOMAIN last'.payload)
       /\ \A k \in DOMAIN last'.payload : state'.scenario[k] = last'.payload[k]
       /\ \A k \in (DOMAIN state.scenario) \ (DOMAIN last'.payload) :
            state'.scenario[k] = state.scenario[k]
       /\ Frame({"scenario"})]_vars

C8_Witness ==
  /\ last.type = "SET_SCENARIO"
  /\ Cardinality(DOMAIN last.payload) = 1
  /\ \E k \in (DOMAIN state.scenario) \ (DOMAIN last.payload) :
       state.scenario[k] = InitialStateOf(variant).scenario[k]
  /\ \A k \in DOMAIN last.payload :
       state.scenario[k] # InitialStateOf(variant).scenario[k]
  /\ state.employees # <<>>

\* C9: an action whose type is none of the six recognized types leaves the
\* whole state as it was.
C9_UnknownActionNoOp ==
  [][last'.type \notin Recognized => state' = state]_vars

C9_Witness ==
  /\ last.type \in UnknownTypes
  /\ state.employees # <<>>
  /\ ~IsNull(state.results)
  /\ state.loading
  /\ ~IsNull(state.error)
  /\ state.scenario # InitialStateOf(variant).scenario

(* ------------------------ application contracts ------------------------- *)

\* C1: in every state the application can reach (uploads, runs that succeed
\* or fail, clearing the data), results and summary are both null or both
\* non-null.
C1_ResultsAndSummaryTogether == IsNull(state.results) <=> IsNull(state.summary)

\* a failed run has left the results and summary of an earlier run in place
C1_Witness ==
  /\ ~IsNull(state.results)
  /\ ~IsNull(state.summary)
  /\ ~IsNull(state.error)
  /\ calls = <<>>

\* C10: in the main application, while a run-simulation call is in flight
\* loading is true (so the Run Simulation control is disabled), and at most
\* one call is in flight.
C10_LoadingWhileInFlight ==
  variant = "context" => /\ (Len(calls) > 0 => state.loading)
                         /\ Len(calls) <= 1

\* C11: when a run-simulation call is started while an earlier one is still
\* in flight, the response of the earlier-started call never overwrites the
\* results and summary already written by the later-started call.
C11_StaleResponseIgnored ==
  [][(event'.handler = "GatewaySettle" /\ event'.input.superseded) =>
       /\ state'.results = state.results
       /\ state'.summary = state.summary]_vars

\* C12: when the gateway call of a run rejects, then once the handler has
\* finished loading is false, error is a non-null string, and results and
\* summary are what they were before the run was started (starting the run
\* does not touch them either).
C12_FailedRunKeepsResults ==
  [][/\ event'.handler = "handleRunSimulation" =>
          /\ state'.results = state.results
          /\ state'.summary = state.summary
     /\ (event'.handler = "GatewaySettle" /\ event'.input.threw) =>
          /\ state'.loading = FALSE
          /\ ~IsNull(state'.error)
          /\ state'.error # Some("")
          /\ state'.results = state.results
          /\ state'.summary = state.summary]_vars

\* a run has just failed with results of an earlier run on display
C12_Witness ==
  /\ event.handler = "GatewaySettle"
  /\ event.input.threw
  /\ ~IsNull(state.results)
  /\ ~IsNull(state.error)
  /\ ~state.loading

\* the employee_id of every result
ResultIds(s) == {s.results[1][i].employee_id : i \in DOMAIN s.results[1]}

\* the id of every roster employee
RosterIds(s) == {s.employees[i].id : i \in DOMAIN s.employees}

\* C13: in every reachable state in which results is non-null, every
\* result's employee_id is the id of some employee of the current roster,
\* also after an upload replaces the roster.
C13_ResultsReferenceRoster ==
  ~IsNull(state.results) => ResultIds(state) \subseteq RosterIds(state)

(* --------------------------- import contracts -------------------------- *)

\* the step is an error-free import
Imported == event'.handler = "UploadComplete" /\ event'.input.errors = <<>>

\* C14: in every reachable state the ids of the roster's employees are
\* pairwise distinct, for every CSV import, also of rows with repeated ids
\* and of rows with an empty id next to rows whose id is of the form emp-<n>.
C14_RosterIdsDistinct ==
  \A i, j \in DOMAIN state.employees :
    state.employees[i].id = state.employees[j].id => i = j

\* C15: for every data row of an import, the employee's is_mrt is true if
\* and only if the raw is_mrt cell is the string "true"; "True", "TRUE", "1",
\* "yes", an empty and a missing cell give false.
C15_IsMrtOnlyLiteralTrue ==
  [][Imported =>
       \A i \in DOMAIN event'.input.data :
         state'.employees[i].is_mrt = (Cell(event'.input.data[i], "is_mrt") = Some("true"))]_vars

C15_Witness ==
  /\ event.handler = "UploadComplete"
  /\ \E i, j \in DOMAIN state.employees :
       /\ Cell(event.input.data[i], "is_mrt") = Some("TRUE")
       /\ ~state.employees[i].is_mrt
       /\ state.employees[j].is_mrt

\* C16: for every data row of an import, performance_rating is the integer
\* the cell parses to whenever it parses as an integer (0 and negative values
\* included), and is 3 exactly when the cell is missing or unparsable.
C16_RatingParsedOrDefault ==
  [][Imported =>
       \A i \in DOMAIN event'.input.data :
         LET n == ParseNumber(Cell(event'.input.data[i], "performance_rating"))
         IN  state'.employees[i].performance_rating = IF IsNull(n) THEN 3 ELSE n[1]]_vars

\* C17: the employee imported from the data row at 0-based index i has the
\* row's id cell as id when the cell is present and non-empty and emp-<i>
\* otherwise, and the roster keeps the order of the data rows.
C17_IdVerbatimOrSynthesized ==
  [][Imported =>
       /\ Len(state'.employees) = Len(event'.input.data)
       /\ \A i \in DOMAIN event'.input.data :
            LET c == Cell(event'.input.data[i], "id")
            IN  state'.employees[i].id =
                  IF ~IsNull(c) /\ c # Some("") THEN c[1] ELSE "emp-" \o ToString(i - 1)]_vars

C17_Witness ==
  /\ event.handler = "UploadComplete"
  /\ Len(state.employees) = 2
  /\ state.employees[1].id = "e1"
  /\ Cell(event.input.data[2], "id") = Some("")
  /\ state.employees[2].id = "emp-1"

\* C18: when parsing the file reports an error, no SET_EMPLOYEES is
\* dispatched and the state is what it was before the import; a roster is
\* committed only as the complete row set of an error-free parse.
C18_ParseErrorCommitsNothing ==
  [][event'.handler = "UploadComplete" =>
       IF event'.input.errors # <<>>
         THEN state' = state /\ last' = last
         ELSE /\ last'.type = "SET_EMPLOYEES"
              /\ state'.employees = last'.payload
              /\ Len(state'.employees) = Len(event'.input.data)]_vars

\* a parse error on a file with a parsed row, over a roster with results
C18_Witness ==
  /\ event.handler = "UploadComplete"
  /\ event.input.errors # <<>>
  /\ Len(event.input.data) > 0
  /\ Len(state.employees) > 0
  /\ ~IsNull(state.results)

(* ---------------------------- edit contracts --------------------------- *)

\* the value is outside the range of its field
OutOfRange(field, value) ==
  /\ ~IsNull(value)
  /\ CASE field = "base_salary" -> value[1] <= 0
       [] field = "performance_rating" -> value[1] < 1 \/ value[1] > 5
       [] field = "quintile" -> value[1] \notin {"Q1", "Q2", "Q3", "Q4", "Q5"}
       [] field = "aum" -> value[1] < 0
       [] OTHER -> FALSE

\* C19: an inline edit whose value is out of range for its field, or whose
\* row id matches no roster employee, dispatches nothing and leaves the state
\* unchanged; an UPDATE_EMPLOYEE is dispatched only for a value in range, on
\* a roster employee.
C19_InvalidEditDispatchesNothing ==
  [][event'.handler = "handleCellEditStop" =>
       LET e == event'.input
           known == \E i \in DOMAIN state.employees : state.employees[i].id = e.id
       IN  /\ (OutOfRange(e.field, e.value) \/ ~known) => (state' = state /\ last' = last)
           /\ (state' # state \/ last' # last) =>
                /\ known
                /\ ~IsNull(e.value)
                /\ ~OutOfRange(e.field, e.value)
                /\ last' = Act("UPDATE_EMPLOYEE",
                               [id |-> e.id, field |-> e.field, value |-> e.value[1]])]_vars

\* an out-of-range edit of a roster employee has been rejected after an
\* earlier edit was accepted
C19_Witness ==
  /\ event.handler = "handleCellEditStop"
  /\ event.input.reason = "enterKeyDown"
  /\ event.input.field = "base_salary"
  /\ event.input.value = Some(0)
  /\ \E i \in DOMAIN state.employees : state.employees[i].id = event.input.id
  /\ last.type = "UPDATE_EMPLOYEE"
  /\ last.payload.field = "aum"

(* --------------------------- export contracts -------------------------- *)

ResultFields ==
  {"adjusted_salary", "salary_change", "salary_increase_percent", "bonus",
   "total_compensation", "flags"}

OwnFields ==
  {"id", "name", "department", "role", "base_salary", "performance_rating", "quintile", "aum"}

\* C20: whenever results is non-null the prepared export rows are one row
\* per roster employee, in roster order; an employee with a matching result
\* carries the result's adjusted_salary, salary_change and bonus,
\* total_compensation = adjusted_salary + bonus and the joined flags, and an
\* employee without one still has a row with its own fields and no result
\* fields.
C20_ExportOneRowPerEmployee ==
  ~IsNull(state.results) =>
    LET rows == prepareExportData(state)
        results == state.results[1]
    IN  /\ Len(rows) = Len(state.employees)
        /\ event.handler = "handleExport" => event.input = rows
        /\ \A i \in DOMAIN state.employees :
             LET employee == state.employees[i]
                 matches == {k \in DOMAIN results : results[k].employee_id = employee.id}
             IN  /\ \A f \in OwnFields : rows[i][f] = employee[f]
                 /\ IF matches = {}
                      THEN DOMAIN rows[i] \cap ResultFields = {}
                      ELSE \E k \in matches :
                             /\ rows[i].adjusted_salary = results[k].adjusted_salary
                             /\ rows[i].salary_change = results[k].salary_change
                             /\ rows[i].bonus = results[k].bonus
                             /\ rows[i].total_compensation =
                                  results[k].adjusted_salary + results[k].bonus
                             /\ rows[i].flags = Join(results[k].flags)

\* an export of two employees, the first with a flagged result and the second
\* without a result
C20_Witness ==
  /\ event.handler = "handleExport"
  /\ Len(event.input) = 2
  /\ event.input[1].flags = "HIGH_INCREASE, MRT_DECREASE"
  /\ "bonus" \notin DOMAIN event.input[2]
  /\ event.input[2].id = "e2"


(* ------------------------ sensitivity curve contracts ------------------- *)

\* the batch whose last probe settled in this step
Completed(e) == e.handler = "ProbeSettles" /\ ~IsNull(e.input)

\* C21: whichever probes fail and in whatever order the 9 calls settle, the
\* series set when the batch completes holds exactly the points of the
\* probes that succeeded, strictly ascending by revenue delta, and the
\* derivation runs to its end (loading is cleared)
C21_SeriesIsSuccessfulProbesSorted ==
  [][Completed(event') =>
       LET batch == event'.input[1]
           ok == DOMAIN deltaPoints \ batch.rejected
           data == curve'.data
       IN  /\ Len(data) = Len(deltaPoints) - Cardinality(batch.rejected)
           /\ {data[k] : k \in DOMAIN data} = {batch.settled[i][1] : i \in ok}
           /\ \A i \in ok : batch.settled[i][1].revenueDelta = deltaPoints[i]
           /\ \A k \in 1..(Len(data) - 1) : data[k].revenueDelta < data[k + 1].revenueDelta
           /\ ~curve'.loading]_vars

\* a batch has completed in which the second and the last probe failed and
\* the seven others are in the series
C21_Witness ==
  /\ Completed(event)
  /\ event.input[1].rejected = {2, 9}
  /\ Len(curve.data) = 7

\* C27: every probe request of a batch carries revenue_delta = its probe
\* point, as a fraction, and adjustment_factor = the current scenario's
\* adjustment factor (config values are in units of 1/10000)
C27_ProbeRequestCarriesDeltaAndFactor ==
  \A b \in DOMAIN curve.batches :
    LET requests == curve.batches[b].requests
    IN  /\ Len(requests) = Len(deltaPoints)
        /\ \A i \in DOMAIN requests :
             /\ requests[i].config.revenue_delta = Some(deltaPoints[i] * 100)
             /\ requests[i].config.adjustment_factor
                  = Some(state.scenario.adjustment_factor * 100)

\* C29: once every batch has settled the series shown is that of the batch
\* started last, and loading is false only when no batch is pending
C29_LatestBatchWins ==
  curve.mounted =>
    /\ (curve.batches = <<>> => ~curve.stale)
    /\ (~curve.loading => curve.batches = <<>>)

(* ------------------------ derived-view contracts ------------------------ *)

\* C22: every derived-view builder returns an empty dataset when the results
\* or the summary it reads is null, in the initial state and after an upload
\* with no run yet
C22_NullInputGivesEmptyDataset ==
  /\ event.handler = "ChartsSection" =>
       /\ IsNull(state.results) => event.input.salaryDistributionData = <<>>
       /\ IsNull(state.summary) => event.input.flagDistributionData = <<>>
  /\ event.handler = "Charts" =>
       /\ IsNull(state.results) \/ IsNull(state.summary) =>
            /\ event.input.chartData = <<>>
            /\ event.input.histogramData = <<>>
       /\ IsNull(state.summary) =>
            /\ event.input.barData = <<>>
            /\ event.input.treemapData = <<>>
            /\ event.input.heatmapData.heatmapData = <<>>
       /\ IsNull(state.results) => event.input.scatterData = <<>>

\* the charts have rendered after an upload and before any run
C22_Witness ==
  /\ event.handler = "Charts"
  /\ Len(state.employees) > 0
  /\ IsNull(state.results) /\ IsNull(state.summary)
  /\ event.input.chartData = <<>>

\* the bucket a non-negative amount belongs to, a boundary going up
BucketOf(v) ==
  IF v < 50000 THEN 1 ELSE IF v < 100000 THEN 2 ELSE IF v < 150000 THEN 3
  ELSE IF v < 200000 THEN 4 ELSE 5

RECURSIVE Total(_, _)
Total(seq, field) == IF seq = <<>> THEN 0 ELSE Head(seq)[field] + Total(Tail(seq), field)

\* C23: with results non-null, the 'original' count of each of the five
\* buckets is the number of employees with base_salary >= 0 whose salary
\* falls in it, a boundary salary counting in the upper bucket, so the five
\* counts sum to the number of such employees (the headcount)
C23_OriginalCountsPartitionRoster ==
  (event.handler = "ChartsSection" /\ ~IsNull(state.results)) =>
    LET data == event.input.salaryDistributionData
        counted == {i \in DOMAIN state.employees : state.employees[i].base_salary >= 0}
    IN  /\ [b \in DOMAIN data |-> data[b].name]
             = <<"0-50K", "50K-100K", "100K-150K", "150K-200K", "200K+">>
        /\ \A b \in DOMAIN data :
             data[b].original
               = Cardinality({i \in counted : BucketOf(state.employees[i].base_salary) = b})
        /\ Total(data, "original") = Cardinality(counted)

\* a salary of 50000 and one of 200000 are counted in the second and the
\* last bucket
C23_Witness ==
  /\ event.handler = "ChartsSection"
  /\ ~IsNull(state.results)
  /\ Len(state.employees) = 2
  /\ state.employees[1].base_salary = 50000
  /\ state.employees[2].base_salary = 200000
  /\ event.input.salaryDistributionData[2].original = 1
  /\ event.input.salaryDistributionData[5].original = 1

\* results whose employee_id is the id of a roster employee
Matched(s) ==
  SelectSeq(s.results[1],
            LAMBDA r : \E e \in DOMAIN s.employees : s.employees[e].id = r.employee_id)

\* C24: a result whose employee_id matches no roster employee contributes to
\* no 'adjusted' bucket and to no scatter point, every matching result
\* contributes, and the 'adjusted' counts sum to the number of matching
\* results with a non-negative adjusted_salary
C24_OrphanedResultsExcluded ==
  /\ (event.handler = "ChartsSection" /\ ~IsNull(state.results)) =>
       LET data == event.input.salaryDistributionData
           matched == Matched(state)
           counted == {k \in DOMAIN matched :
                         "adjusted_salary" \in DOMAIN matched[k] /\ matched[k].adjusted_salary >= 0}
       IN  /\ \A b \in DOMAIN data :
                data[b].adjusted
                  = Cardinality({k \in counted : BucketOf(matched[k].adjusted_salary) = b})
           /\ Total(data, "adjusted") = Cardinality(counted)
  /\ (event.handler = "Charts" /\ ~IsNull(state.results)) =>
       LET points == event.input.scatterData
           matched == Matched(state)
       IN  /\ Len(points) = Len(matched)
           /\ \A k \in DOMAIN points :
                /\ points[k].bonus = Some(ChartDecimals[matched[k].bonus])
                /\ \E e \in DOMAIN state.employees :
                     /\ state.employees[e].id = matched[k].employee_id
                     /\ points[k].name = state.employees[e].name

\* an orphaned result next to a matching one: one scatter point
C24_Witness ==
  /\ event.handler = "Charts"
  /\ ~IsNull(state.results)
  /\ Len(state.results[1]) = 2
  /\ state.results[1][1].employee_id = "zz"
  /\ state.results[1][2].employee_id = "e1"
  /\ Len(state.employees) > 0
  /\ Len(event.input.scatterData) = 1

\* C25: with results and summary non-null the bridge has exactly five steps
\* in the order last-year payroll (sum of original_base), base-salary change
\* (sum of adjusted_base minus sum of original_base), bonus (sum of bonus),
\* flag adjustment, new payroll (summary.total_payroll); for sums 1000000,
\* 1030000 and 150000, one result flagged MRT_DECREASE and a total payroll of
\* 1175000 the values are 1000000, 30000, 150000, -5000, 1175000
C25_WaterfallFiveFixedSteps ==
  (event.handler = "Charts" /\ ~IsNull(state.results) /\ ~IsNull(state.summary)) =>
    LET steps == event.input.chartData
        results == state.results[1]
        original == Total([i \in DOMAIN results |->
                             [v |-> ChartDecimals[results[i].original_base]]], "v")
        adjusted == Total(results, "adjusted_base")
        bonus == Total([i \in DOMAIN results |-> [v |-> ChartDecimals[results[i].bonus]]], "v")
    IN  /\ [k \in DOMAIN steps |-> steps[k].name]
             = <<"Last Year Payroll", "Base Salary Change", "Bonus Impact",
                 "Flag Adjustments", "New Payroll">>
        /\ steps[1].value = Some(original)
        /\ steps[2].value = Some(adjusted - original)
        /\ steps[3].value = Some(bonus)
        /\ steps[5].value = Some(state.summary[1].total_payroll)
        /\ (/\ original = 1000000 /\ adjusted = 1030000 /\ bonus = 150000
            /\ Cardinality({i \in DOMAIN results : results[i].flags = <<"MRT_DECREASE">>}) = 1
            /\ Cardinality({i \in DOMAIN results : results[i].flags = <<>>}) = Len(results) - 1
            /\ state.summary[1].total_payroll = 1175000)
           => [k \in DOMAIN steps |-> steps[k].value]
                = <<Some(1000000), Some(30000), Some(150000), Some(-5000), Some(1175000)>>

\* the bridge of the example has been built
C25_Witness ==
  /\ event.handler = "Charts"
  /\ ~IsNull(state.results) /\ ~IsNull(state.summary)
  /\ Len(state.results[1]) = 2
  /\ state.results[1][1].flags = <<"MRT_DECREASE">>
  /\ state.results[1][2].flags = <<>>
  /\ state.summary[1].total_payroll = 1175000
  /\ event.input.chartData[2].value = Some(30000)
  /\ event.input.chartData[4].value = Some(-5000)

\* C26: the flag-adjustment step is -5000 times the number of results whose
\* flags contain MRT_DECREASE plus 2000 times the number of results whose
\* flags contain HIGH_INCREASE, a result with both flags contributing both
C26_FlagAdjustmentSumsBothFlags ==
  (event.handler = "Charts" /\ ~IsNull(state.results) /\ ~IsNull(state.summary)) =>
    LET results == state.results[1]
        mrt == {i \in DOMAIN results : Includes(results[i], "MRT_DECREASE")}
        high == {i \in DOMAIN results : Includes(results[i], "HIGH_INCREASE")}
    IN  event.input.chartData[4].value
          = Some(2000 * Cardinality(high) - 5000 * Cardinality(mrt))

(* --------------------------- run-simulation contracts ------------------- *)

\* the step in which a run succeeds writes the results and the summary of a
\* response to one of the calls in flight (of the mock: those it computes)
SetFromResponse ==
  \/ /\ event'.handler = "GatewaySettle"
     /\ \E i \in DOMAIN calls : \E response \in Responses(calls[i].employees) :
          LET r == calculateScenario(response)
          IN  /\ ~r.threw
              /\ state'.results = r.value.results
              /\ state'.summary = r.value.summary
  \/ /\ event'.handler = "MockTimeout"
     /\ \E i \in DOMAIN calls :
          LET mockResults == [k \in DOMAIN calls[i].employees |->
                                MockResult(calls[i].employees[k], calls[i].scenario)]
          IN  /\ state'.results = Some(mockResults)
              /\ state'.summary
                   = Some(MockSummary(mockResults, calls[i].employees, calls[i].scenario))

\* a run has succeeded in this step
RunSucceeds ==
  \/ event'.handler = "GatewaySettle" /\ ~event'.input.threw
  \/ event'.handler = "MockTimeout"

\* C28: every run-simulation that sets loading is eventually followed by a
\* state in which loading is false, whether its call resolves or rejects,
\* and the state a successful run leaves has loading false, the results and
\* the summary of the response, and no error
C28_RunEventuallyStopsLoading ==
  /\ (event.handler = "handleRunSimulation" /\ state.loading) ~> ~state.loading
  /\ [][RunSucceeds => /\ ~state'.loading
                        /\ SetFromResponse
                        /\ ~IsNull(state'.results) /\ ~IsNull(state'.summary)
                        /\ IsNull(state'.error)]_vars

\* a run has succeeded
C28_Witness ==
  /\ event.handler = "GatewaySettle"
  /\ ~event.input.threw
  /\ ~state.loading
  /\ ~IsNull(state.results)
  /\ IsNull(state.error)

\* the handler has been called over an empty roster
EmptyRosterRun == event'.handler = "handleRunSimulation" /\ Len(state.employees) = 0

\* C30: called with an empty roster, the run handler dispatches SET_ERROR
\* 'Please upload employee data first' and nothing else: no gateway call
\* is made, loading is not set to true, results and summary are unchanged
C30_EmptyRosterOnlySetsError ==
  [][EmptyRosterRun =>
       LET action == Act("SET_ERROR", Some("Please upload employee data first"))
       IN  /\ last' = action
           /\ state' = Reduce(variant, state, action)
           /\ state'.error = Some("Please upload employee data first")
           /\ calls' = calls
           /\ state'.loading => state.loading
           /\ state'.results = state.results
           /\ state'.summary = state.summary]_vars

\* the handler has answered an empty roster while results of an earlier run
\* are on display
C30_Witness ==
  /\ event.handler = "handleRunSimulation"
  /\ Len(state.employees) = 0
  /\ state.error = Some("Please upload employee data first")
  /\ ~IsNull(state.results)
  /\ calls = <<>>

====
